---------------------------- MODULE Spec2Model ----------------------------
(***************************************************************************)
(* Peer request intake and batching (src/src/client_pooling/mod.rs).       *)
(*                                                                         *)
(* Spec / FairSpec : ConnectedPeersGroup, ConnectedPeersPool and the       *)
(*                   pooled ConnectedPeer of a replica node, with the      *)
(*                   batch worker thread of every pool and the consumer.   *)
(* SeqSpec         : the same, with init_client calls one after another.   *)
(* ReplicaSpec     : ReplicaHandling and the unpooled ConnectedPeer        *)
(*                   (ReplicaFairSpec: with a consumer that keeps          *)
(*                   receiving).                                           *)
(* LockSpec        : the lock() calls and guard drops of the threads.      *)
(* ShutdownSpec    : FairSpec's steps with shutdown() and del_pool()       *)
(*                   called on pools.                                      *)
(* ChanFairSpec    : FairSpec's steps with an output channel that fills.   *)
(* PoolIdSpec      : get_pool_id on counters and directories.              *)
(* TcpSpec         : PeerConnections and PeerConnection of                 *)
(*                   src/src/tcpip/connections/mod.rs.                     *)
(* SendSpec        : the send queue of a PeerConnection and the outgoing   *)
(*                   tasks of its streams (outgoing/asynchronous.rs).      *)
(* SleepSpec       : FairSpec's steps with the sleep of the pool thread.   *)
(* ReplicaDropSpec : ReplicaSpec's steps with replaced sinks dropped.      *)
(* CloseRaceSpec   : FairSpec's steps with the closing of an empty pool in *)
(*                   its two steps and attempt_to_remove called on pools.  *)
(***************************************************************************)
EXTENDS Integers, Sequences, FiniteSets, TLC

(***************************************************************************)
(* Bounds of the model.                                                    *)
(***************************************************************************)
\* pooled sinks ever created by ConnectedPeersGroup::init_client
MaxSinks == 3
\* distinct client node ids
NumClients == 2
\* messages ever pushed on pooled sinks
MaxMsgs == 2
\* revolutions of collect_requests after which batch_timeout_micros has elapsed
MaxRevs == 1
\* capacity of the batch output channel (NODE_CHAN_BOUND, scaled down)
MaxChan == 2
\* configuration: ClientPoolConfig.clients_per_pool
ClientsPerPool == 2
\* configuration: ClientPoolConfig.batch_size
BatchTargetSize == 2

\* the same two bounds in FairSpec, whose behaviours are checked as wholes
LiveMaxSinks == 2
LiveMaxMsgs == 2
\* in LockSpec: threads inside init_client, pools with a collector thread, and sinks
\* with a transport thread
NumLockCallers == 2
NumLockPools == 2
NumLockSinks == 1
\* unpooled sinks ever created by ReplicaHandling::init_client
MaxReplicaSinks == 4
\* distinct replica node ids, the node's own id included
NumReplicas == 2
\* messages ever pushed on unpooled sinks
MaxReplicaMsgs == 3

\* in TcpSpec: peers of the node, threads that hand established streams over, and
\* streams ever established to one peer
NumTcpPeers == 2
NumAcceptors == 2
MaxStreams == 3

\* in PoolIdSpec: the highest value of pool_id_counter, and of the lowest key of the
\* directory, that get_pool_id is called on
MaxPoolIdStart == 2

\* in SleepSpec: the highest small value of ClientPoolConfig.batch_sleep_micros
MaxBatchSleep == 5

\* in SendSpec: messages ever given to peer_message of one PeerConnection, streams
\* ever established to the peer, and capacity of the send queue
\* (TX_CONNECTION_QUEUE, scaled down)
MaxSendMsgs == 2
MaxSendStreams == 2
MaxTxQueue == 1

\* const IT_LIMIT in get_pool_id
IT_LIMIT == 100

ClientIds == 1..NumClients
ReplicaIds == 0..(NumReplicas - 1)
\* PeerIncomingRqHandling.own_id
own_id == 0
PoolIds == 0..(MaxSinks - 1)
\* enum NodeType, the node_type argument of PeerIncomingRqHandling::new
NodeTypes == {"Replica", "Client"}

VARIABLES
    \* ---- ConnectedPeersGroup / ConnectedPeersPool / pooled ConnectedPeer
    peers,                    \* every PoolConnection ever created, by creation order
    client_connections_cache, \* ConnectedPeersGroup.client_connections_cache: id -> sink (0: absent)
    connected_clients,        \* ConnectedPeersGroup.connected_clients (AtomicUsize)
    client_pools,             \* keys of ConnectedPeersGroup.client_pools (BTreeMap)
    pool,                     \* every ConnectedPeersPool ever created, by pool_id
    worker,                   \* the collector thread of each pool and its locals
    pool_id_counter,          \* ConnectedPeersGroup.pool_id_counter
    client_rx,                \* the batch output channel (client_tx / client_rx)
    delivered,                \* messages the consumer got from receive_from_clients, in order
    init_pc,                  \* progress of the init_client call that created each sink
    dc_called,                \* history: disconnect() has returned for the sink
    pushed,                   \* history: the sink of every message pushed, in push order
    \* ---- ReplicaHandling / unpooled ConnectedPeer
    replica_peers,            \* every UnpooledConnection ever created
    replica_connected_clients,\* ReplicaHandling.connected_clients: id -> sink (0: absent)
    connected_client_count,   \* ReplicaHandling.connected_client_count
    channel_rx_replica,       \* the replica message channel
    replica_delivered,        \* messages returned by receive_from_replicas, in order
    replica_msg_count,        \* history: number of messages pushed on unpooled sinks
    channel_tx_replica,       \* holders of a sender of the channel: 0 is the field of
                              \* ReplicaHandling, s the unpooled sink s
    \* ---- PeerIncomingRqHandling
    node_type,                \* the role the node was constructed with
    \* ---- the mutexes of ConnectedPeersGroup, ConnectedPeersPool and ConnectedPeer
    mutex,                    \* the thread that holds each std::sync::Mutex (None: free)
    lock_todo,                \* the lock and unlock operations each thread has yet to do
    \* ---- PeerConnections and PeerConnection of tcpip::connections
    connection_map,           \* NodeId -> Option of the PeerConnection (an index of the heap)
    peer_connection,          \* the PeerConnection objects built by new_peer, in order
    shard,                    \* the thread that holds the DashMap entry of each NodeId
    acceptor,                 \* each thread inside handle_connection_established
    outgoing,                 \* the outgoing task spawned for a (PeerConnection, conn id)
    established,              \* streams handed to handle_connection_established, per peer
    \* ---- a call of ConnectedPeersGroup::get_pool_id on a counter and a directory
    pool_id_call              \* the counter and directory it ran on, and what it returned

pool_vars == <<peers, client_connections_cache, connected_clients, client_pools, pool,
               worker, pool_id_counter, client_rx, delivered, init_pc, dc_called, pushed>>
replica_vars == <<replica_peers, replica_connected_clients, connected_client_count,
                  channel_rx_replica, replica_delivered, replica_msg_count,
                  channel_tx_replica>>
node_vars == <<node_type>>
lock_vars == <<mutex, lock_todo>>
tcp_vars == <<connection_map, peer_connection, shard, acceptor, outgoing, established>>
call_vars == <<pool_id_call>>
vars == <<pool_vars, replica_vars, node_vars, lock_vars, tcp_vars, call_vars>>

(***************************************************************************)
(* Option<Vec<T>> of PoolConnection.queue.                                 *)
(***************************************************************************)
None == <<>>
Some(v) == <<v>>

Min(S) == CHOOSE x \in S : \A y \in S : x <= y

(***************************************************************************)
(* ConnectedPeer (PoolConnection arm).                                     *)
(***************************************************************************)
\* init_client, lines 481-485
NewPoolConnection(peer_id) ==
    [client_id |-> peer_id, queue |-> Some(<<>>), disconnected |-> FALSE]

is_dc(peer) == peer.disconnected

\* a disconnect that raises the flag
disconnect_store_true(peer) == [peer EXCEPT !.disconnected = TRUE]

\* disconnected.store(false, Ordering::Relaxed)
disconnect(peer) == [peer EXCEPT !.disconnected = FALSE]

\* a drain that copies the buffer instead of swapping it out
dump_requests_copy(peer, replacement_vec) ==
    IF peer.queue = None
    THEN [ok |-> FALSE, peer |-> peer, vec |-> replacement_vec]
    ELSE [ok |-> TRUE, peer |-> peer, vec |-> peer.queue[1]]

\* a drain that hands back the replacement instead of the drained buffer
dump_requests_discard(peer, replacement_vec) ==
    IF peer.queue = None
    THEN [ok |-> FALSE, peer |-> peer, vec |-> replacement_vec]
    ELSE [ok |-> TRUE, peer |-> [peer EXCEPT !.queue = Some(replacement_vec)],
          vec |-> replacement_vec]

\* Ok(std::mem::replace(rqs, replacement_vec)) / Err(replacement_vec)
dump_requests(peer, replacement_vec) ==
    IF peer.queue = None
    THEN [ok |-> FALSE, peer |-> peer, vec |-> replacement_vec]
    ELSE [ok |-> TRUE, peer |-> [peer EXCEPT !.queue = Some(replacement_vec)],
          vec |-> peer.queue[1]]

\* a push that puts the message at the front of the buffer
push_request_front(peer, msg) ==
    IF peer.queue = None
    THEN [ok |-> FALSE, peer |-> peer]
    ELSE [ok |-> TRUE, peer |-> [peer EXCEPT !.queue = Some(<<msg>> \o peer.queue[1])]]

\* sender.push(msg); Ok(())  /  Err(PooledConnectionClosed)
push_request(peer, msg) ==
    IF peer.queue = None
    THEN [ok |-> FALSE, peer |-> peer]
    ELSE [ok |-> TRUE, peer |-> [peer EXCEPT !.queue = Some(Append(peer.queue[1], msg))]]

(***************************************************************************)
(* ConnectedPeersPool.                                                     *)
(***************************************************************************)
\* ConnectedPeersPool::new
NewPool ==
    [connected_clients |-> <<>>, finish_execution |-> FALSE]

\* the thread of a pool before start() spawned it
NewWorker ==
    [pc |-> "unstarted", connected_peers |-> <<>>, start_point |-> 0, index |-> 0,
     batch |-> <<>>, replacement_vec |-> <<>>, dced |-> <<>>, sleep_micros |-> None]

\* an add that reports success without storing the sink
attempt_to_add_drop(list, client, client_limit) ==
    [ok |-> TRUE, list |-> IF Len(list) < client_limit THEN Append(list, client) ELSE list]

\* an add that still accepts a sink when the list holds client_limit sinks
attempt_to_add_over(list, client, client_limit) ==
    IF Len(list) <= client_limit
    THEN [ok |-> TRUE, list |-> Append(list, client)]
    ELSE [ok |-> FALSE, list |-> list]

\* an add that refuses a sink one place before the limit
attempt_to_add_below(list, client, client_limit) ==
    IF Len(list) = 0 \/ Len(list) + 1 < client_limit
    THEN [ok |-> TRUE, list |-> Append(list, client)]
    ELSE [ok |-> FALSE, list |-> list]

\* if guard.len() < self.client_limit { guard.push(client); Ok(()) } else Err(client)
attempt_to_add(list, client, client_limit) ==
    IF Len(list) < client_limit
    THEN [ok |-> TRUE, list |-> Append(list, client)]
    ELSE [ok |-> FALSE, list |-> list]

\* Vec::swap_remove
swap_remove(list, i) ==
    IF i = Len(list)
    THEN SubSeq(list, 1, Len(list) - 1)
    ELSE [k \in 1..(Len(list) - 1) |-> IF k = i THEN list[Len(list)] ELSE list[k]]

\* guard.iter().position(|x| x.client_id().0 == node.0)
position(list, node) ==
    LET hits == {i \in 1..Len(list) : peers[list[i]].client_id = node}
    IN  IF hits = {} THEN 0 ELSE Min(hits)

\* the loop over dced, lines 771-785
RECURSIVE remove_dced(_, _)
remove_dced(list, dced) ==
    IF dced = <<>> THEN list
    ELSE LET option == position(list, Head(dced))
         IN  remove_dced(IF option = 0 THEN list ELSE swap_remove(list, option), Tail(dced))

\* Vec::append(&mut self, other: &mut Vec<T>): moves every element of other
vec_append(self, other) == [self |-> self \o other, other |-> <<>>]

(***************************************************************************)
(* ConnectedPeersGroup.                                                    *)
(***************************************************************************)
\* a get_pool_id that takes the first id of the counter without looking it up
get_pool_id_loop_unchecked(counter, it_count, pools) ==
    [ok |-> TRUE, pool_id |-> counter, counter |-> counter + 1]

\* the loop of get_pool_id
RECURSIVE get_pool_id_loop(_, _, _)
get_pool_id_loop(counter, it_count, pools) ==
    LET pool_id == counter
        it == it_count + 1
    IN  IF it >= IT_LIMIT
        THEN [ok |-> FALSE, pool_id |-> pool_id, counter |-> counter + 1]
        ELSE IF pool_id \notin pools
             THEN [ok |-> TRUE, pool_id |-> pool_id, counter |-> counter + 1]
             ELSE get_pool_id_loop(counter + 1, it, pools)

get_pool_id == get_pool_id_loop(pool_id_counter, 0, client_pools)

\* AtomicUsize::fetch_sub wraps around; the modulus 2^64 of usize is scaled to the
\* integers of the model checker
UsizeModulus == 2 ^ 30
fetch_sub(value, n) == (value - n) % UsizeModulus

\* del_cached_clients: remove every id, then fetch_sub(clients.len())
del_cached_clients_cache(cache, clients) ==
    [c \in DOMAIN cache |->
        IF \E i \in 1..Len(clients) : clients[i] = c THEN 0 ELSE cache[c]]

(***************************************************************************)
(* ReplicaHandling and the UnpooledConnection arm of ConnectedPeer.        *)
(***************************************************************************)
\* init_client, lines 323-326; every sink holds a clone of channel_tx_replica
NewUnpooledConnection(peer_id) == [client_id |-> peer_id]

\* is_dc: Self::UnpooledConnection { .. } => false
unpooled_is_dc(peer) == FALSE

\* disconnect: Self::UnpooledConnection { .. } => {}
unpooled_disconnect(peer) == peer

\* a push that puts the message at the head of the channel
unpooled_push_request_front(channel, peer, msg) ==
    [ok |-> TRUE, channel |-> <<msg>> \o channel]

\* sender.send_return((msg, Instant::now())): the channel is unbounded and
\* ReplicaHandling keeps channel_rx_replica, so the send is accepted
unpooled_push_request(channel, peer, msg) ==
    [ok |-> TRUE, channel |-> Append(channel, msg)]

\* an insert that counts the peer whether or not it was connected before
replica_init_client_recount(map, count, sink, peer_id) ==
    [connected_clients |-> [map EXCEPT ![peer_id] = sink],
     connected_client_count |-> count + 1,
     old |-> map[peer_id]]

\* ReplicaHandling::init_client, lines 328-338: insert, then count or disconnect the old
replica_init_client(map, count, sink, peer_id) ==
    [connected_clients |-> [map EXCEPT ![peer_id] = sink],
     connected_client_count |-> IF map[peer_id] = 0 THEN count + 1 ELSE count,
     old |-> map[peer_id]]

\* ReplicaHandling::resolve_connection (0: None)
resolve_connection(peer_id) == replica_connected_clients[peer_id]

\* ReplicaHandling::receive_from_replicas, as it returns: recv() waits while the
\* channel is empty; recv_timeout gives None on Timeout | ChannelEmpty
receive_from_replicas(channel, timeout) ==
    IF channel # <<>>
    THEN [returns |-> TRUE, value |-> Some(Head(channel)), channel |-> Tail(channel)]
    ELSE [returns |-> timeout # None, value |-> None, channel |-> channel]

(***************************************************************************)
(* PeerIncomingRqHandling: the fields new() sets from node_type, and the   *)
(* operations on the batch output channel.                                 *)
(***************************************************************************)
\* self.client_rx: Some(rx) on a replica node, None on a client node
self_client_rx == IF node_type = "Replica" THEN Some(client_rx) ELSE None

\* self.client_handling, by its counter: Some on a replica node, None on a client node
self_client_handling == IF node_type = "Replica" THEN Some(connected_clients) ELSE None

\* a lookup that stands in an empty channel for the missing one
get_client_rx_empty(rx) ==
    IF rx = None THEN [ok |-> TRUE, rx |-> <<>>] ELSE [ok |-> TRUE, rx |-> rx[1]]

\* None => Err!(ClientPoolError::NoClientsConnected), Some(rx) => Ok(rx)
get_client_rx(rx) ==
    IF rx = None
    THEN [ok |-> FALSE, err |-> "NoClientsConnected"]
    ELSE [ok |-> TRUE, rx |-> rx[1]]

\* None => None, Some(client) => Some(client.connected_clients.load(..))
client_count(client_handling) ==
    IF client_handling = None THEN None ELSE Some(client_handling[1])

\* self.peer_loopback: the sink that replica_handling.init_client(id) returned in new()
peer_loopback == 1

\* ConnectedPeersGroup::get_client_conn (0: None)
get_client_conn(client_id) ==
    IF client_id \in DOMAIN client_connections_cache
    THEN client_connections_cache[client_id] ELSE 0

\* a lookup of the node's own id in the map of ReplicaHandling
resolve_peer_conn_map(peer, peer_type) ==
    IF resolve_connection(peer) = 0
    THEN None
    ELSE Some([arm |-> "UnpooledConnection", sink |-> resolve_connection(peer)])

\* resolve_peer_conn: the loopback for own_id, else the map of ReplicaHandling or the
\* cache of ConnectedPeersGroup (whose absence on a client node makes unwrap() panic)
resolve_peer_conn(peer, peer_type) ==
    IF peer = own_id
    THEN Some([arm |-> "UnpooledConnection", sink |-> peer_loopback])
    ELSE IF peer_type = "Replica"
    THEN IF peer \notin DOMAIN replica_connected_clients \/ resolve_connection(peer) = 0
         THEN None
         ELSE Some([arm |-> "UnpooledConnection", sink |-> resolve_connection(peer)])
    ELSE IF self_client_handling = None
    THEN Some([arm |-> "panic", sink |-> 0])
    ELSE IF get_client_conn(peer) = 0
    THEN None
    ELSE Some([arm |-> "PoolConnection", sink |-> get_client_conn(peer)])

\* a receive that reports the elapsed timeout as an error
receive_from_clients_err(rx, timeout) ==
    LET got == get_client_rx(rx)
    IN  IF ~got.ok
        THEN [returns |-> TRUE, ok |-> FALSE, err |-> got.err, value |-> <<>>, rx |-> rx]
        ELSE IF got.rx # <<>>
        THEN [returns |-> TRUE, ok |-> TRUE, err |-> "", value |-> Head(got.rx),
              rx |-> Some(Tail(got.rx))]
        ELSE [returns |-> timeout # None, ok |-> FALSE, err |-> "Timeout", value |-> <<>>,
              rx |-> rx]

\* receive_from_clients(timeout), as it returns: get_client_rx()?, then rx.recv() (which
\* waits while the channel is empty) or rx.recv_timeout(timeout), whose
\* TryRecvError::Timeout becomes Ok(vec![]); client_tx is a field of the node, so the
\* channel is never disconnected
receive_from_clients(rx, timeout) ==
    LET got == get_client_rx(rx)
    IN  IF ~got.ok
        THEN [returns |-> TRUE, ok |-> FALSE, err |-> got.err, value |-> <<>>, rx |-> rx]
        ELSE IF got.rx # <<>>
        THEN [returns |-> TRUE, ok |-> TRUE, err |-> "", value |-> Head(got.rx),
              rx |-> Some(Tail(got.rx))]
        ELSE [returns |-> timeout # None, ok |-> TRUE, err |-> "", value |-> <<>>,
              rx |-> rx]

\* a try-receive that takes the batch sent last
try_receive_from_clients_newest(rx) ==
    LET got == get_client_rx(rx)
    IN  IF ~got.ok
        THEN [returns |-> TRUE, ok |-> FALSE, err |-> got.err, value |-> None, rx |-> rx]
        ELSE IF got.rx # <<>>
        THEN [returns |-> TRUE, ok |-> TRUE, err |-> "", value |-> Some(got.rx[Len(got.rx)]),
              rx |-> Some(SubSeq(got.rx, 1, Len(got.rx) - 1))]
        ELSE [returns |-> TRUE, ok |-> TRUE, err |-> "", value |-> None, rx |-> rx]

\* try_receive_from_clients: get_client_rx()?, then rx.try_recv(), whose
\* TryRecvError::ChannelEmpty becomes Ok(None)
try_receive_from_clients(rx) ==
    LET got == get_client_rx(rx)
    IN  IF ~got.ok
        THEN [returns |-> TRUE, ok |-> FALSE, err |-> got.err, value |-> None, rx |-> rx]
        ELSE IF got.rx # <<>>
        THEN [returns |-> TRUE, ok |-> TRUE, err |-> "", value |-> Some(Head(got.rx)),
              rx |-> Some(Tail(got.rx))]
        ELSE [returns |-> TRUE, ok |-> TRUE, err |-> "", value |-> None, rx |-> rx]

(***************************************************************************)
(* The mutexes: ConnectedPeersGroup.client_pools, the connected_clients of *)
(* each pool and the queue of each pooled sink, and for every function the *)
(* lock() calls and guard drops it makes, in program order.                *)
(***************************************************************************)
client_pools_mutex == <<"client_pools", 0>>
connected_clients_mutex(p) == <<"connected_clients", p>>
queue_mutex(s) == <<"queue", s>>

LockPools == 0..(NumLockPools - 1)
LockSinks == 1..NumLockSinks
Mutexes ==
    {client_pools_mutex} \cup {connected_clients_mutex(p) : p \in LockPools}
                         \cup {queue_mutex(s) : s \in LockSinks}

LockThreads ==
    {<<"init_client", c>> : c \in 1..NumLockCallers}
        \cup {<<"collector", p>> : p \in LockPools}
        \cup {<<"transport", s>> : s \in LockSinks}

lock(m) == [op |-> "lock", m |-> m]
drop(m) == [op |-> "drop", m |-> m]

\* attempt_to_add: `let mut guard = self.connected_clients.lock()`, dropped on return
attempt_to_add_locks(p) == <<lock(connected_clients_mutex(p)), drop(connected_clients_mutex(p))>>

\* the calls of attempt_to_add on the pools 0..last of the directory, in id order
RECURSIVE scan_locks(_)
scan_locks(last) ==
    IF last < 0 THEN <<>> ELSE scan_locks(last - 1) \o attempt_to_add_locks(last)

\* get_pool_id: `self.client_pools.lock().unwrap().contains_key(&pool_id)`; the counter
\* only grows and every pool id was drawn from it, so the first candidate is free
get_pool_id_locks == <<lock(client_pools_mutex), drop(client_pools_mutex)>>

\* init_client with the pools LockPools in the directory: the scan under the guard of
\* client_pools, which returns at pool `accepted`, or (accepted = NumLockPools) finds
\* every pool full and goes on to get_pool_id and the insert; the sink list of the new
\* pool is locked too, but no other thread has that pool yet
init_client_locks(accepted) ==
    IF accepted \in LockPools
    THEN <<lock(client_pools_mutex)>> \o scan_locks(accepted) \o <<drop(client_pools_mutex)>>
    ELSE <<lock(client_pools_mutex)>> \o scan_locks(NumLockPools - 1)
         \o <<drop(client_pools_mutex)>>
         \o get_pool_id_locks
         \o <<lock(client_pools_mutex), drop(client_pools_mutex)>>

\* dump_requests and push_request: `queue.lock().unwrap()`, dropped on return
queue_locks(s) == <<lock(queue_mutex(s)), drop(queue_mutex(s))>>

RECURSIVE visit_locks(_)
visit_locks(snapshot) ==
    IF snapshot = <<>> THEN <<>>
    ELSE queue_locks(Head(snapshot)) \o visit_locks(Tail(snapshot))

\* del_pool: `self.client_pools.lock().unwrap().remove(&pool_id)`; shutdown() is a store
del_pool_locks == <<lock(client_pools_mutex), drop(client_pools_mutex)>>

\* a collect cycle that keeps the guard of the sink list until it returns
collect_requests_locks_kept(p, snapshot, reap, close) ==
    <<lock(connected_clients_mutex(p))>>
        \o visit_locks(snapshot)
        \o (IF close THEN del_pool_locks ELSE <<>>)
        \o <<drop(connected_clients_mutex(p))>>

\* one iteration of the thread of pool p: collect_requests takes the guard of the sink
\* list for the snapshot and drops it, visits the sinks of the snapshot, takes the guard
\* again if it reaps, and after it has returned ClosePool the thread calls del_pool
collect_requests_locks(p, snapshot, reap, close) ==
    <<lock(connected_clients_mutex(p)), drop(connected_clients_mutex(p))>>
        \o visit_locks(snapshot)
        \o (IF reap THEN <<lock(connected_clients_mutex(p)), drop(connected_clients_mutex(p))>>
            ELSE <<>>)
        \o (IF close THEN del_pool_locks ELSE <<>>)

\* the sinks of a snapshot, in list order
Snapshots == {<<>>} \cup {<<s>> : s \in LockSinks}
                    \cup {q \in LockSinks \X LockSinks : q[1] # q[2]}

\* what a thread may run next
LockPrograms(t) ==
    IF t[1] = "init_client"
    THEN {init_client_locks(accepted) : accepted \in 0..NumLockPools}
    ELSE IF t[1] = "collector"
    THEN {collect_requests_locks(t[2], snapshot, reap, close) :
             snapshot \in Snapshots, reap \in BOOLEAN, close \in BOOLEAN}
    ELSE {queue_locks(t[2])}

(***************************************************************************)
(* Initial state: PeerIncomingRqHandling::new.                             *)
(***************************************************************************)
PoolInit ==
    /\ peers = <<>>
    /\ client_connections_cache = [c \in ClientIds |-> 0]
    /\ connected_clients = 0
    /\ client_pools = {}
    /\ pool = <<>>
    /\ worker = <<>>
    /\ pool_id_counter = 0
    /\ client_rx = <<>>
    /\ delivered = <<>>
    /\ init_pc = <<>>
    /\ dc_called = <<>>
    /\ pushed = <<>>

\* ReplicaHandling::new, then `let loopback_address = replica_handling.init_client(id)`
ReplicaInit ==
    LET new == [connected_clients |-> [r \in ReplicaIds |-> 0], connected_client_count |-> 0]
        loopback == replica_init_client(new.connected_clients, new.connected_client_count,
                                        1, own_id)
    IN  /\ replica_peers = <<NewUnpooledConnection(own_id)>>
        /\ replica_connected_clients = loopback.connected_clients
        /\ connected_client_count = loopback.connected_client_count
        /\ channel_rx_replica = <<>>
        /\ replica_delivered = <<>>
        /\ replica_msg_count = 0
        /\ channel_tx_replica = {0, 1}

LockInit ==
    /\ mutex = [m \in Mutexes |-> None]
    /\ lock_todo = [t \in LockThreads |-> <<>>]

\* ---- tcpip::connections: the state after PeerConnections::new
TcpPeers == 1..NumTcpPeers
Acceptors == 1..NumAcceptors

\* TcpConfig.replica_concurrent_connections, what get_connections_to_node returns
replica_concurrent_connections == 1

IdleAcceptor ==
    [pc |-> "idle", node |-> 0, vacant |-> FALSE, peer_conn |-> 0, conn_handle |-> 0,
     current_connections |-> 0]

\* PeerConnection::new_peer: no stream yet, ids of streams from 0; client is the sink
\* that init_peer_conn gave, client_disconnects the calls of disconnect() on it; tx is
\* the queue of messages to send (tx and rx are its two ends), peer_messages the number
\* of messages given to peer_message, written the messages written to the sockets of
\* the peer and callback_calls the calls of their callbacks
new_peer(node) ==
    [peer_node_id |-> node, conn_id_generator |-> 0, active_connection_count |-> 0,
     active_connections |-> {}, cancelled |-> {}, client_disconnects |-> 0,
     tx |-> <<>>, peer_messages |-> 0, written |-> <<>>, callback_calls |-> <<>>]

TcpInit ==
    /\ connection_map = [node \in TcpPeers |-> None]
    /\ peer_connection = <<>>
    /\ shard = [node \in TcpPeers |-> None]
    /\ acceptor = [t \in Acceptors |-> IdleAcceptor]
    /\ outgoing = <<>>
    /\ established = [node \in TcpPeers |-> 0]

CallInit == pool_id_call = [counter |-> 0, pools |-> {}, result |-> None]

Init == PoolInit /\ ReplicaInit /\ LockInit /\ TcpInit /\ CallInit /\ node_type \in NodeTypes

(***************************************************************************)
(* ConnectedPeersGroup::init_client, lines 480-494: the sink is built,     *)
(* counted, put in the cache, and the sink it replaces is disconnect()ed.  *)
(***************************************************************************)
InitClient(peer_id) ==
    /\ self_client_handling # None  \* init_peer_conn: .ok_or(NoClientsConnected).unwrap()
    /\ Len(peers) < MaxSinks
    /\ \A c \in ClientIds : c < peer_id => \E s \in 1..Len(peers) : peers[s].client_id = c
    /\ LET s == Len(peers) + 1
           old_conn == client_connections_cache[peer_id]
           added == Append(peers, NewPoolConnection(peer_id))
       IN  /\ connected_clients' = connected_clients + 1
           /\ client_connections_cache' = [client_connections_cache EXCEPT ![peer_id] = s]
           /\ peers' = IF old_conn = 0 THEN added
                       ELSE [added EXCEPT ![old_conn] = disconnect(added[old_conn])]
           /\ dc_called' = IF old_conn = 0 THEN Append(dc_called, FALSE)
                           ELSE [Append(dc_called, FALSE) EXCEPT ![old_conn] = TRUE]
           /\ init_pc' = Append(init_pc, "scan")
    /\ UNCHANGED <<client_pools, pool, worker, pool_id_counter, client_rx, delivered, pushed>>
    /\ UNCHANGED <<replica_vars, node_vars, call_vars, lock_vars, tcp_vars>>

\* init_client, lines 496-511: the pools are tried in id order under the map's lock
InitClientScan(s) ==
    /\ s \in 1..Len(peers)
    /\ init_pc[s] = "scan"
    /\ LET accepting == {p \in client_pools :
                            attempt_to_add(pool[p].connected_clients, s, ClientsPerPool).ok}
       IN  IF accepting # {}
           THEN LET p == Min(accepting)
                    r == attempt_to_add(pool[p].connected_clients, s, ClientsPerPool)
                IN  /\ pool' = [pool EXCEPT ![p].connected_clients = r.list]
                    /\ init_pc' = [init_pc EXCEPT ![s] = "done"]
           ELSE /\ pool' = pool
                /\ init_pc' = [init_pc EXCEPT ![s] = "new_pool"]
    /\ UNCHANGED <<peers, client_connections_cache, connected_clients, client_pools, worker,
                   pool_id_counter, client_rx, delivered, dc_called, pushed>>
    /\ UNCHANGED <<replica_vars, node_vars, call_vars, lock_vars, tcp_vars>>

\* init_client, lines 513-551: a new pool is allocated, filled, inserted and started
InitClientNewPool(s) ==
    /\ s \in 1..Len(peers)
    /\ init_pc[s] = "new_pool"
    /\ LET got == get_pool_id
           r == attempt_to_add(NewPool.connected_clients, s, ClientsPerPool)
       IN  /\ got.ok       \* Err: panic!("Failed to allocate new pool id")
           /\ r.ok         \* Err: panic!("Failed to add pool to pool list.")
           /\ pool_id_counter' = got.counter
           /\ pool' = (got.pool_id :> [NewPool EXCEPT !.connected_clients = r.list]) @@ pool
           /\ client_pools' = client_pools \cup {got.pool_id}
           /\ worker' = (got.pool_id :> [NewWorker EXCEPT !.pc = "loop"]) @@ worker
    /\ init_pc' = [init_pc EXCEPT ![s] = "done"]
    /\ UNCHANGED <<peers, client_connections_cache, connected_clients, client_rx, delivered,
                   dc_called, pushed>>
    /\ UNCHANGED <<replica_vars, node_vars, call_vars, lock_vars, tcp_vars>>

(***************************************************************************)
(* The transport task of a client: push_request and disconnect on a sink.  *)
(***************************************************************************)
PushRequest(s) ==
    /\ s \in 1..Len(peers)
    /\ Len(pushed) < MaxMsgs
    /\ LET r == push_request(peers[s], [from |-> s, id |-> Len(pushed) + 1])
       IN  /\ peers' = [peers EXCEPT ![s] = r.peer]
           /\ pushed' = IF r.ok THEN Append(pushed, s) ELSE pushed
    /\ UNCHANGED <<client_connections_cache, connected_clients, client_pools, pool, worker,
                   pool_id_counter, client_rx, delivered, init_pc, dc_called>>
    /\ UNCHANGED <<replica_vars, node_vars, call_vars, lock_vars, tcp_vars>>

Disconnect(s) ==
    /\ s \in 1..Len(peers)
    /\ ~dc_called[s]
    /\ peers' = [peers EXCEPT ![s] = disconnect(peers[s])]
    /\ dc_called' = [dc_called EXCEPT ![s] = TRUE]
    /\ UNCHANGED <<client_connections_cache, connected_clients, client_pools, pool, worker,
                   pool_id_counter, client_rx, delivered, init_pc, pushed>>
    /\ UNCHANGED <<replica_vars, node_vars, call_vars, lock_vars, tcp_vars>>

(***************************************************************************)
(* ConnectedPeersGroup::del_pool, as called by the thread of pool p.       *)
(***************************************************************************)
\* a shutdown that flips the flag
shutdown_toggle(self) == [self EXCEPT !.finish_execution = ~self.finish_execution]

\* ConnectedPeersPool::shutdown: self.finish_execution.store(true, Ordering::Relaxed)
shutdown(self) == [self EXCEPT !.finish_execution = TRUE]

\* a del_pool that signals the thread of the pool and leaves the pool in the directory
del_pool_keep(pool_id) ==
    [client_pools |-> client_pools,
     pool |-> IF pool_id \in client_pools
              THEN [pool EXCEPT ![pool_id] = shutdown(pool[pool_id])]
              ELSE pool,
     removed |-> pool_id \in client_pools]

\* client_pools.lock().unwrap().remove(&pool_id), then pool.shutdown() and true for
\* Some(pool), false for None
del_pool(pool_id) ==
    [client_pools |-> client_pools \ {pool_id},
     pool |-> IF pool_id \in client_pools
              THEN [pool EXCEPT ![pool_id] = shutdown(pool[pool_id])]
              ELSE pool,
     removed |-> pool_id \in client_pools]

\* the ClosePool arm of the thread: del_pool, finish_execution.store(true), break
ClosePool(p, cache, count, list) ==
    /\ client_pools' = del_pool(p).client_pools
    /\ pool' = [del_pool(p).pool EXCEPT ![p].finish_execution = TRUE,
                                        ![p].connected_clients = list]
    /\ worker' = [worker EXCEPT ![p] = [NewWorker EXCEPT !.pc = "done"]]
    /\ client_connections_cache' = cache
    /\ connected_clients' = count

(***************************************************************************)
(* The thread spawned by ConnectedPeersPool::start.                        *)
(***************************************************************************)
\* lines 618-623 and 686-714: the flag is read, then collect_requests takes its snapshot
WorkerLoop(p) ==
    /\ p \in DOMAIN worker
    /\ worker[p].pc = "loop"
    /\ IF pool[p].finish_execution
       THEN /\ worker' = [worker EXCEPT ![p].pc = "done"]
            /\ UNCHANGED <<client_pools, pool, client_connections_cache, connected_clients>>
       ELSE IF Len(pool[p].connected_clients) = 0
            THEN ClosePool(p, client_connections_cache, connected_clients,
                           pool[p].connected_clients)
            ELSE /\ \E start_point \in 0..(Len(pool[p].connected_clients) - 1) :
                        worker' = [worker EXCEPT ![p] =
                            [NewWorker EXCEPT !.pc = "collect",
                                              !.connected_peers = pool[p].connected_clients,
                                              !.start_point = start_point]]
                 /\ UNCHANGED <<client_pools, pool, client_connections_cache,
                                connected_clients>>
    /\ UNCHANGED <<peers, pool_id_counter, client_rx, delivered, init_pc, dc_called, pushed>>
    /\ UNCHANGED <<replica_vars, node_vars, call_vars, lock_vars, tcp_vars>>

\* a test that finds no batch empty
is_empty_never(vec) == FALSE

\* Vec::is_empty, as the thread asks it of the batch at line 640
is_empty(vec) == Len(vec) = 0

\* lines 768-801 and 624-640: the loop is left, the dead sinks are removed from the
\* pool and from the cache, and collect_requests returns Ok(batch) or ClosePool
CollectFinish(p, batch, dced) ==
    LET list == remove_dced(pool[p].connected_clients, dced)
        cache == del_cached_clients_cache(client_connections_cache, dced)
        count == fetch_sub(connected_clients, Len(dced))
    IN  IF dced = <<>>
        THEN /\ worker' = [worker EXCEPT ![p] =
                    [NewWorker EXCEPT !.pc = IF ~is_empty(batch) THEN "send" ELSE "loop",
                                      !.batch = batch]]
             /\ UNCHANGED <<pool, client_connections_cache, connected_clients, client_pools>>
        ELSE IF list = <<>>
        THEN ClosePool(p, cache, count, list)
        ELSE /\ pool' = [pool EXCEPT ![p].connected_clients = list]
             /\ client_connections_cache' = cache
             /\ connected_clients' = count
             /\ client_pools' = client_pools
             /\ worker' = [worker EXCEPT ![p] =
                    [NewWorker EXCEPT !.pc = IF ~is_empty(batch) THEN "send" ELSE "loop",
                                      !.batch = batch]]

\* one pass of the loop `for index in 0..ind_limit`, lines 716-764; the pass that
\* breaks out of the loop runs the rest of collect_requests
CollectVisit(p) ==
    /\ p \in DOMAIN worker
    /\ worker[p].pc = "collect"
    /\ LET w == worker[p]
           n == Len(w.connected_peers)
           s == w.connected_peers[((w.start_point + w.index) % n) + 1]
           client == peers[s]
           d == dump_requests(client, w.replacement_vec)
           a == vec_append(w.batch, d.vec)
           continue(batch, replacement_vec, dced) ==
               /\ worker' = [worker EXCEPT ![p].batch = batch,
                                           ![p].replacement_vec = replacement_vec,
                                           ![p].dced = dced,
                                           ![p].index = w.index + 1]
               /\ UNCHANGED <<pool, client_connections_cache, connected_clients, client_pools>>
       IN  IF is_dc(client)
           THEN /\ continue(w.batch, w.replacement_vec, Append(w.dced, client.client_id))
                /\ peers' = peers
           ELSE IF ~d.ok
           THEN /\ continue(w.batch, d.vec, Append(w.dced, client.client_id))
                /\ peers' = peers
           ELSE /\ peers' = [peers EXCEPT ![s] = d.peer]
                /\ IF w.index % n = 0
                   THEN IF Len(a.self) >= BatchTargetSize
                        THEN CollectFinish(p, a.self, w.dced)
                        ELSE \E timed_out \in (IF w.index \div n >= MaxRevs
                                               THEN {TRUE} ELSE BOOLEAN) :
                                IF timed_out
                                THEN CollectFinish(p, a.self, w.dced)
                                ELSE continue(a.self, a.other, w.dced)
                   ELSE continue(a.self, a.other, w.dced)
    /\ UNCHANGED <<pool_id_counter, client_rx, delivered, init_pc, dc_called, pushed>>
    /\ UNCHANGED <<replica_vars, node_vars, call_vars, lock_vars, tcp_vars>>

\* a send that finds room in every channel
send_return_unbounded(channel, capacity, value) ==
    [blocks |-> FALSE, channel |-> Append(channel, value)]

\* ChannelSyncTx::send_return on a channel made by new_bounded_sync(capacity): the
\* caller waits while the channel holds capacity values, then the value is the last
send_return(channel, capacity, value) ==
    [blocks |-> Len(channel) >= capacity, channel |-> Append(channel, value)]

\* self.batch_transmission.send_return((vec, Instant::now())), which blocks while the
\* channel is full, then std::thread::sleep(Duration::from_micros(sleep_micros))
SendBatchBounded(p, capacity) ==
    /\ p \in DOMAIN worker
    /\ worker[p].pc = "send"
    /\ ~send_return(client_rx, capacity, worker[p].batch).blocks
    /\ client_rx' = send_return(client_rx, capacity, worker[p].batch).channel
    /\ worker' = [worker EXCEPT ![p].batch = <<>>, ![p].pc = "loop"]
    /\ UNCHANGED <<peers, client_connections_cache, connected_clients, client_pools, pool,
                   pool_id_counter, delivered, init_pc, dc_called, pushed>>
    /\ UNCHANGED <<replica_vars, node_vars, call_vars, lock_vars, tcp_vars>>

SendBatch(p) == SendBatchBounded(p, MaxChan)

(***************************************************************************)
(* The consumer: a call of receive_from_clients, with or without a        *)
(* timeout, or of try_receive_from_clients, at the moment it returns.      *)
(***************************************************************************)
ReceiveFromClients ==
    /\ \E call \in {"recv", "recv_timeout", "try_recv"} :
          LET r == IF call = "try_recv"
                   THEN try_receive_from_clients(self_client_rx)
                   ELSE receive_from_clients(self_client_rx,
                                             IF call = "recv" THEN None ELSE Some("timeout"))
              vec == IF call # "try_recv" THEN r.value
                     ELSE IF r.value = None THEN <<>> ELSE r.value[1]
          IN  /\ r.returns
              /\ IF r.ok
                 THEN /\ client_rx' = r.rx[1]
                      /\ delivered' = delivered \o vec
                 ELSE UNCHANGED <<client_rx, delivered>>
    /\ UNCHANGED <<peers, client_connections_cache, connected_clients, client_pools, pool,
                   worker, pool_id_counter, init_pc, dc_called, pushed>>
    /\ UNCHANGED <<replica_vars, node_vars, call_vars, lock_vars, tcp_vars>>

WorkerStep(p) == WorkerLoop(p) \/ CollectVisit(p) \/ SendBatch(p)

Next ==
    \/ \E peer_id \in ClientIds : InitClient(peer_id)
    \/ \E s \in 1..MaxSinks : InitClientScan(s)
    \/ \E s \in 1..MaxSinks : InitClientNewPool(s)
    \/ \E s \in 1..MaxSinks : PushRequest(s)
    \/ \E s \in 1..MaxSinks : Disconnect(s)
    \/ \E p \in PoolIds : WorkerLoop(p)
    \/ \E p \in PoolIds : CollectVisit(p)
    \/ \E p \in PoolIds : SendBatch(p)
    \/ ReceiveFromClients

Spec == Init /\ [][Next]_vars

(***************************************************************************)
(* ReplicaHandling: registrations, the transport tasks of the replicas     *)
(* and the consumer.                                                       *)
(***************************************************************************)
ReplicaInitClient(peer_id) ==
    /\ Len(replica_peers) < MaxReplicaSinks
    /\ LET sink == Len(replica_peers) + 1
           r == replica_init_client(replica_connected_clients, connected_client_count,
                                    sink, peer_id)
           added == Append(replica_peers, NewUnpooledConnection(peer_id))
       IN  /\ replica_connected_clients' = r.connected_clients
           /\ connected_client_count' = r.connected_client_count
           /\ replica_peers' = IF r.old = 0 THEN added
                               ELSE [added EXCEPT ![r.old] = unpooled_disconnect(added[r.old])]
           /\ channel_tx_replica' = channel_tx_replica \cup {sink}
    /\ UNCHANGED <<channel_rx_replica, replica_delivered, replica_msg_count>>
    /\ UNCHANGED <<pool_vars, node_vars, call_vars, lock_vars, tcp_vars>>

ReplicaPushRequest(s) ==
    /\ s \in 1..Len(replica_peers)
    /\ s \in channel_tx_replica
    /\ replica_msg_count < MaxReplicaMsgs
    /\ LET r == unpooled_push_request(channel_rx_replica, replica_peers[s],
                                      [from |-> s, id |-> replica_msg_count + 1])
       IN  /\ channel_rx_replica' = r.channel
           /\ replica_msg_count' = IF r.ok THEN replica_msg_count + 1 ELSE replica_msg_count
    /\ UNCHANGED <<replica_peers, replica_connected_clients, connected_client_count,
                   replica_delivered, channel_tx_replica>>
    /\ UNCHANGED <<pool_vars, node_vars, call_vars, lock_vars, tcp_vars>>

\* the consumer: a call of receive_from_replicas, with or without a timeout, at the
\* moment it returns
ReceiveFromReplicas ==
    /\ \E timeout \in {None, Some("timeout")} :
          LET r == receive_from_replicas(channel_rx_replica, timeout)
          IN  /\ r.returns
              /\ channel_rx_replica' = r.channel
              /\ replica_delivered' = IF r.value = None THEN replica_delivered
                                      ELSE Append(replica_delivered, r.value[1])
    /\ UNCHANGED <<replica_peers, replica_connected_clients, connected_client_count,
                   replica_msg_count, channel_tx_replica>>
    /\ UNCHANGED <<pool_vars, node_vars, call_vars, lock_vars, tcp_vars>>

ReplicaNext ==
    \/ \E peer_id \in ReplicaIds : ReplicaInitClient(peer_id)
    \/ \E s \in 1..MaxReplicaSinks : ReplicaPushRequest(s)
    \/ ReceiveFromReplicas

ReplicaSpec == Init /\ [][ReplicaNext]_vars

\* the consumer thread keeps calling receive_from_replicas
ReplicaFairSpec == ReplicaSpec /\ WF_vars(ReceiveFromReplicas)

\* a drop that takes every sender of the channel away
drop_sender_all(senders, s) == {}

\* Drop of the last Arc of an unpooled sink: its clone of channel_tx_replica goes
drop_sender(senders, s) == senders \ {s}

\* recv / recv_timeout give ChannelDc on an empty channel that has no sender left
ChannelDc == channel_tx_replica = {} /\ channel_rx_replica = <<>>

\* the transport task lets go of a sink that init_client has replaced in the map; the
\* loopback sink stays in the field peer_loopback
DropReplicaSink(s) ==
    /\ s \in channel_tx_replica \ {0, peer_loopback}
    /\ replica_connected_clients[replica_peers[s].client_id] # s
    /\ channel_tx_replica' = drop_sender(channel_tx_replica, s)
    /\ UNCHANGED <<replica_peers, replica_connected_clients, connected_client_count,
                   channel_rx_replica, replica_delivered, replica_msg_count>>
    /\ UNCHANGED <<pool_vars, node_vars, call_vars, lock_vars, tcp_vars>>

ReplicaDropNext ==
    \/ ReplicaNext
    \/ \E s \in 1..MaxReplicaSinks : DropReplicaSink(s)

ReplicaDropSpec == Init /\ [][ReplicaDropNext]_vars


(***************************************************************************)
(* The threads that take the mutexes of a replica node: callers of         *)
(* init_client, the collector thread of each pool, the transport thread of *)
(* each sink.                                                              *)
(***************************************************************************)
\* a thread enters init_client, an iteration of the collector loop, or push_request
LockCall(t) ==
    /\ self_client_handling # None
    /\ lock_todo[t] = <<>>
    /\ \E program \in LockPrograms(t) : lock_todo' = [lock_todo EXCEPT ![t] = program]
    /\ UNCHANGED <<mutex, pool_vars, replica_vars, node_vars, call_vars, tcp_vars>>

\* Mutex::lock: the thread goes on once the mutex is free (std mutexes are not reentrant)
LockAcquire(t) ==
    /\ lock_todo[t] # <<>>
    /\ Head(lock_todo[t]).op = "lock"
    /\ mutex[Head(lock_todo[t]).m] = None
    /\ mutex' = [mutex EXCEPT ![Head(lock_todo[t]).m] = Some(t)]
    /\ lock_todo' = [lock_todo EXCEPT ![t] = Tail(lock_todo[t])]
    /\ UNCHANGED <<pool_vars, replica_vars, node_vars, call_vars, tcp_vars>>

\* the guard goes out of scope or is drop()ped
LockRelease(t) ==
    /\ lock_todo[t] # <<>>
    /\ Head(lock_todo[t]).op = "drop"
    /\ mutex' = [mutex EXCEPT ![Head(lock_todo[t]).m] = None]
    /\ lock_todo' = [lock_todo EXCEPT ![t] = Tail(lock_todo[t])]
    /\ UNCHANGED <<pool_vars, replica_vars, node_vars, call_vars, tcp_vars>>

LockNext ==
    \/ \E t \in LockThreads : LockCall(t)
    \/ \E t \in LockThreads : LockAcquire(t)
    \/ \E t \in LockThreads : LockRelease(t)

LockSpec == Init /\ [][LockNext]_vars

(***************************************************************************)
(* tcpip::connections: PeerConnections keeps one PeerConnection per peer   *)
(* in a DashMap, and every PeerConnection keeps the handles of its TCP     *)
(* streams.  Streams are handed over by the threads of the connection      *)
(* establisher; the outgoing task of a stream deletes the stream when its  *)
(* loop breaks.                                                            *)
(***************************************************************************)
\* connection_map.len()
connected_nodes_count == Cardinality({node \in TcpPeers : connection_map[node] # None})

\* connection_map.contains_key(node)
is_connected_to_node(node) == connection_map[node] # None

\* an entry() that takes no lock on the map
entry_unlocked(t, node) == TRUE

\* DashMap::entry(node): the caller gets the entry once no other thread holds it
entry(t, node) == shard[node] = None

\* handle_connection_established, line 390: the entry of the peer is taken and seen
\* vacant or occupied
HandleConnectionEstablished(t, node) ==
    /\ acceptor[t].pc = "idle"
    /\ established[node] < MaxStreams
    /\ entry(t, node)
    /\ shard' = [shard EXCEPT ![node] = Some(t)]
    /\ acceptor' = [acceptor EXCEPT ![t] = [IdleAcceptor EXCEPT
                        !.pc = "or_insert_with", !.node = node,
                        !.vacant = (connection_map[node] = None)]]
    /\ established' = [established EXCEPT ![node] = @ + 1]
    /\ UNCHANGED <<connection_map, peer_connection, outgoing>>
    /\ UNCHANGED <<pool_vars, replica_vars, node_vars, call_vars, lock_vars>>

\* lines 392-402: a vacant entry gets a PeerConnection built by new_peer, an occupied
\* one gives the PeerConnection it holds
OrInsertWith(t) ==
    /\ acceptor[t].pc = "or_insert_with"
    /\ IF acceptor[t].vacant
       THEN /\ peer_connection' = Append(peer_connection, new_peer(acceptor[t].node))
            /\ connection_map' = [connection_map EXCEPT
                                      ![acceptor[t].node] = Some(Len(peer_connection) + 1)]
            /\ acceptor' = [acceptor EXCEPT ![t].pc = "init_conn_handle",
                                            ![t].peer_conn = Len(peer_connection) + 1]
       ELSE /\ acceptor' = [acceptor EXCEPT ![t].pc = "init_conn_handle",
                                            ![t].peer_conn = connection_map[acceptor[t].node][1]]
            /\ UNCHANGED <<peer_connection, connection_map>>
    /\ UNCHANGED <<shard, outgoing, established>>
    /\ UNCHANGED <<pool_vars, replica_vars, node_vars, call_vars, lock_vars>>

\* insert_new_connection, line 165, and init_conn_handle: conn_id_generator.fetch_add(1)
InitConnHandle(t) ==
    /\ acceptor[t].pc = "init_conn_handle"
    /\ LET c == acceptor[t].peer_conn
       IN  /\ acceptor' = [acceptor EXCEPT ![t].pc = "insert",
                               ![t].conn_handle = peer_connection[c].conn_id_generator]
           /\ peer_connection' = [peer_connection EXCEPT ![c].conn_id_generator = @ + 1]
    /\ UNCHANGED <<connection_map, shard, outgoing, established>>
    /\ UNCHANGED <<pool_vars, replica_vars, node_vars, call_vars, lock_vars>>

\* lines 167-172: the handle goes into active_connections under its mutex; an id that
\* was there already leads to todo!()
InsertConnHandle(t) ==
    /\ acceptor[t].pc = "insert"
    /\ LET c == acceptor[t].peer_conn
           id == acceptor[t].conn_handle
       IN  /\ acceptor' = [acceptor EXCEPT ![t].pc =
                               IF id \in peer_connection[c].active_connections
                               THEN "todo" ELSE "fetch_add"]
           /\ peer_connection' = [peer_connection EXCEPT ![c].active_connections = @ \cup {id}]
    /\ UNCHANGED <<connection_map, shard, outgoing, established>>
    /\ UNCHANGED <<pool_vars, replica_vars, node_vars, call_vars, lock_vars>>

\* line 177: active_connection_count.fetch_add(1) gives the count before the addition
FetchAddConnectionCount(t) ==
    /\ acceptor[t].pc = "fetch_add"
    /\ LET c == acceptor[t].peer_conn
       IN  /\ acceptor' = [acceptor EXCEPT ![t].pc = "conn_limit",
                               ![t].current_connections = peer_connection[c].active_connection_count]
           /\ peer_connection' = [peer_connection EXCEPT ![c].active_connection_count = @ + 1]
    /\ UNCHANGED <<connection_map, shard, outgoing, established>>
    /\ UNCHANGED <<pool_vars, replica_vars, node_vars, call_vars, lock_vars>>

\* a limit test that lets every stream through
conn_limit_reached_never(current_connections, conn_limit) == FALSE

\* line 183: current_connections >= conn_limit * 2
conn_limit_reached(current_connections, conn_limit) == current_connections >= conn_limit * 2

\* lines 183-204: at conn_limit * 2 the count is taken back and the stream dropped,
\* below it the tasks of the stream are spawned; the entry is released on return
SpawnOrDispose(t) ==
    /\ acceptor[t].pc = "conn_limit"
    /\ LET c == acceptor[t].peer_conn
           id == acceptor[t].conn_handle
       IN  IF conn_limit_reached(acceptor[t].current_connections,
                                 replica_concurrent_connections)
           THEN /\ peer_connection' = [peer_connection EXCEPT ![c].active_connection_count = @ - 1]
                /\ UNCHANGED outgoing
           ELSE /\ outgoing' = (<<c, id>> :> [pc |-> "loop", found |-> FALSE,
                                              remaining_conns |-> 0, to_send |-> None,
                                              incoming |-> "loop"]) @@ outgoing
                /\ UNCHANGED peer_connection
    /\ shard' = [shard EXCEPT ![acceptor[t].node] = None]
    /\ acceptor' = [acceptor EXCEPT ![t] = IdleAcceptor]
    /\ UNCHANGED <<connection_map, established>>
    /\ UNCHANGED <<pool_vars, replica_vars, node_vars, call_vars, lock_vars>>

\* spawn_outgoing_task, lines 31-77: a failed recv, write or flush breaks the loop
OutgoingBreak(k) ==
    /\ k \in DOMAIN outgoing
    /\ outgoing[k].pc = "loop"
    /\ outgoing' = [outgoing EXCEPT ![k].pc = "delete_connection"]
    /\ UNCHANGED <<connection_map, peer_connection, shard, acceptor, established>>
    /\ UNCHANGED <<pool_vars, replica_vars, node_vars, call_vars, lock_vars>>

\* delete_connection, lines 214-219: the handle is removed under the mutex
DeleteConnection(k) ==
    /\ k \in DOMAIN outgoing
    /\ outgoing[k].pc = "delete_connection"
    /\ outgoing' = [outgoing EXCEPT ![k].pc = "fetch_sub",
                        ![k].found = (k[2] \in peer_connection[k[1]].active_connections)]
    /\ peer_connection' = [peer_connection EXCEPT ![k[1]].active_connections = @ \ {k[2]}]
    /\ UNCHANGED <<connection_map, shard, acceptor, established>>
    /\ UNCHANGED <<pool_vars, replica_vars, node_vars, call_vars, lock_vars>>

\* lines 221-231: for a removed handle fetch_sub(1) gives the count before the
\* subtraction and the handle is cancelled; otherwise the count is loaded
FetchSubConnectionCount(k) ==
    /\ k \in DOMAIN outgoing
    /\ outgoing[k].pc = "fetch_sub"
    /\ outgoing' = [outgoing EXCEPT ![k].pc = "handle_conn_lost",
                        ![k].remaining_conns = peer_connection[k[1]].active_connection_count]
    /\ IF outgoing[k].found
       THEN peer_connection' = [peer_connection EXCEPT
                                    ![k[1]].active_connection_count = @ - 1,
                                    ![k[1]].cancelled = @ \cup {k[2]}]
       ELSE UNCHANGED peer_connection
    /\ UNCHANGED <<connection_map, shard, acceptor, established>>
    /\ UNCHANGED <<pool_vars, replica_vars, node_vars, call_vars, lock_vars>>

\* handle_conn_lost, lines 411-427: with no stream remaining the peer leaves the map;
\* the streams asked of the connection establisher come back through
\* handle_connection_established
HandleConnLost(k) ==
    /\ k \in DOMAIN outgoing
    /\ outgoing[k].pc = "handle_conn_lost"
    /\ LET node == peer_connection[k[1]].peer_node_id
       IN  IF outgoing[k].remaining_conns <= 0
           THEN /\ shard[node] = None
                /\ connection_map' = [connection_map EXCEPT ![node] = None]
           ELSE UNCHANGED connection_map
    /\ outgoing' = [outgoing EXCEPT ![k].pc = "end"]
    /\ UNCHANGED <<peer_connection, shard, acceptor, established>>
    /\ UNCHANGED <<pool_vars, replica_vars, node_vars, call_vars, lock_vars>>

TcpNext ==
    \/ \E t \in Acceptors, node \in TcpPeers : HandleConnectionEstablished(t, node)
    \/ \E t \in Acceptors : OrInsertWith(t)
    \/ \E t \in Acceptors : InitConnHandle(t)
    \/ \E t \in Acceptors : InsertConnHandle(t)
    \/ \E t \in Acceptors : FetchAddConnectionCount(t)
    \/ \E t \in Acceptors : SpawnOrDispose(t)
    \/ \E k \in DOMAIN outgoing : OutgoingBreak(k)
    \/ \E k \in DOMAIN outgoing : DeleteConnection(k)
    \/ \E k \in DOMAIN outgoing : FetchSubConnectionCount(k)
    \/ \E k \in DOMAIN outgoing : HandleConnLost(k)

TcpSpec == Init /\ [][TcpNext]_vars

(***************************************************************************)
(* The send path of a peer: peer_message puts a message and its callback   *)
(* on the queue of the PeerConnection, and the outgoing task of every      *)
(* stream of the peer takes messages from it and writes them to its        *)
(* socket.                                                                 *)
(***************************************************************************)
\* a return that drops the message
peer_msg_return_async_drop(tx, to_send) == tx

\* peer_msg_return_async: send_async puts the message at the tail of the queue; the
\* PeerConnection holds both ends of the channel, so the send does not fail
peer_msg_return_async(tx, to_send) == Append(tx, to_send)

\* the bounded channel has room: send and send_async go through, else they wait
tx_has_room(c) == Len(peer_connection[c].tx) < MaxTxQueue

\* peer_message: the message, numbered in the order of the calls, goes on the queue
\* with its callback (Some or None)
PeerMessage(c, callback) ==
    /\ c \in DOMAIN peer_connection
    /\ peer_connection[c].peer_messages < MaxSendMsgs
    /\ tx_has_room(c)
    /\ peer_connection' = [peer_connection EXCEPT
           ![c].peer_messages = @ + 1,
           ![c].tx = Append(@, [msg |-> peer_connection[c].peer_messages + 1,
                                callback |-> callback])]
    /\ UNCHANGED <<connection_map, shard, acceptor, outgoing, established>>
    /\ UNCHANGED <<pool_vars, replica_vars, node_vars, call_vars, lock_vars>>

\* handle_connection_established for the streams of the one peer the send path looks at
SendConnectionEstablished(t) ==
    /\ established[1] < MaxSendStreams
    /\ HandleConnectionEstablished(t, 1)

\* spawn_outgoing_task, line 30: rx.recv_async() gives the head of the queue
RecvAsync(k) ==
    /\ k \in DOMAIN outgoing
    /\ outgoing[k].pc = "loop"
    /\ peer_connection[k[1]].tx # <<>>
    /\ outgoing' = [outgoing EXCEPT ![k].pc = "is_cancelled",
                                    ![k].to_send = Some(Head(peer_connection[k[1]].tx))]
    /\ peer_connection' = [peer_connection EXCEPT ![k[1]].tx = Tail(@)]
    /\ UNCHANGED <<connection_map, shard, acceptor, established>>
    /\ UNCHANGED <<pool_vars, replica_vars, node_vars, call_vars, lock_vars>>

\* lines 50-60: on a cancelled handle the message goes back to the queue and the task
\* returns without delete_connection
IsCancelled(k) ==
    /\ k \in DOMAIN outgoing
    /\ outgoing[k].pc = "is_cancelled"
    /\ IF k[2] \in peer_connection[k[1]].cancelled
       THEN /\ tx_has_room(k[1])
            /\ peer_connection' = [peer_connection EXCEPT
                   ![k[1]].tx = peer_msg_return_async(@, outgoing[k].to_send[1])]
            /\ outgoing' = [outgoing EXCEPT ![k].pc = "return", ![k].to_send = None]
       ELSE /\ outgoing' = [outgoing EXCEPT ![k].pc = "send_message"]
            /\ UNCHANGED peer_connection
    /\ UNCHANGED <<connection_map, shard, acceptor, established>>
    /\ UNCHANGED <<pool_vars, replica_vars, node_vars, call_vars, lock_vars>>

\* send_message, lines 85-119: a write that succeeds calls the callback with true, one
\* that fails gives message and callback back to the queue
send_message(k, write_ok, pc_ok, pc_err) ==
    LET to_send == outgoing[k].to_send[1]
    IN  /\ IF write_ok
           THEN /\ peer_connection' = [peer_connection EXCEPT
                       ![k[1]].written = Append(@, to_send.msg),
                       ![k[1]].callback_calls =
                           IF to_send.callback # None
                           THEN Append(@, <<to_send.msg, TRUE>>) ELSE @]
                /\ outgoing' = [outgoing EXCEPT ![k].pc = pc_ok, ![k].to_send = None]
           ELSE /\ tx_has_room(k[1])
                /\ peer_connection' = [peer_connection EXCEPT
                       ![k[1]].tx = peer_msg_return_async(@, to_send)]
                /\ outgoing' = [outgoing EXCEPT ![k].pc = pc_err, ![k].to_send = None]
        /\ UNCHANGED <<connection_map, shard, acceptor, established>>
        /\ UNCHANGED <<pool_vars, replica_vars, node_vars, call_vars, lock_vars>>

\* line 62: the message recv_async gave is sent; a failure breaks the loop
SendMessage(k) ==
    /\ k \in DOMAIN outgoing
    /\ outgoing[k].pc = "send_message"
    /\ \E write_ok \in BOOLEAN : send_message(k, write_ok, "try_recv", "delete_connection")

\* line 67: try_recv takes a pending message, or ends the inner loop
TryRecv(k) ==
    /\ k \in DOMAIN outgoing
    /\ outgoing[k].pc = "try_recv"
    /\ IF peer_connection[k[1]].tx # <<>>
       THEN /\ outgoing' = [outgoing EXCEPT ![k].pc = "send_pending",
                                ![k].to_send = Some(Head(peer_connection[k[1]].tx))]
            /\ peer_connection' = [peer_connection EXCEPT ![k[1]].tx = Tail(@)]
       ELSE /\ outgoing' = [outgoing EXCEPT ![k].pc = "flush"]
            /\ UNCHANGED peer_connection
    /\ UNCHANGED <<connection_map, shard, acceptor, established>>
    /\ UNCHANGED <<pool_vars, replica_vars, node_vars, call_vars, lock_vars>>

\* lines 68-70: a pending message is sent; a failure breaks the inner loop only
SendPending(k) ==
    /\ k \in DOMAIN outgoing
    /\ outgoing[k].pc = "send_pending"
    /\ \E write_ok \in BOOLEAN : send_message(k, write_ok, "try_recv", "flush")

\* lines 74-76: a flush that fails breaks the loop
Flush(k) ==
    /\ k \in DOMAIN outgoing
    /\ outgoing[k].pc = "flush"
    /\ \E flush_ok \in BOOLEAN :
           outgoing' = [outgoing EXCEPT ![k].pc =
                            IF flush_ok THEN "loop" ELSE "delete_connection"]
    /\ UNCHANGED <<connection_map, peer_connection, shard, acceptor, established>>
    /\ UNCHANGED <<pool_vars, replica_vars, node_vars, call_vars, lock_vars>>

\* the incoming task of the stream, spawned at line 208 with the same handle, ends as
\* the outgoing task does: delete_connection of the stream, then handle_conn_lost
IncomingEnd(k) ==
    /\ k \in DOMAIN outgoing
    /\ outgoing[k].incoming = "loop"
    /\ LET c == k[1]
           node == peer_connection[c].peer_node_id
           found == k[2] \in peer_connection[c].active_connections
           remaining_conns == peer_connection[c].active_connection_count
       IN  /\ peer_connection' =
                  IF found
                  THEN [peer_connection EXCEPT ![c].active_connections = @ \ {k[2]},
                                               ![c].active_connection_count = @ - 1,
                                               ![c].cancelled = @ \cup {k[2]}]
                  ELSE peer_connection
           /\ IF remaining_conns <= 0
              THEN /\ shard[node] = None
                   /\ connection_map' = [connection_map EXCEPT ![node] = None]
              ELSE UNCHANGED connection_map
    /\ outgoing' = [outgoing EXCEPT ![k].incoming = "end"]
    /\ UNCHANGED <<shard, acceptor, established>>
    /\ UNCHANGED <<pool_vars, replica_vars, node_vars, call_vars, lock_vars>>

SendNext ==
    \/ \E t \in Acceptors : SendConnectionEstablished(t)
    \/ \E t \in Acceptors : OrInsertWith(t)
    \/ \E t \in Acceptors : InitConnHandle(t)
    \/ \E t \in Acceptors : InsertConnHandle(t)
    \/ \E t \in Acceptors : FetchAddConnectionCount(t)
    \/ \E t \in Acceptors : SpawnOrDispose(t)
    \/ \E c \in DOMAIN peer_connection, callback \in {None, Some("callback")} :
           PeerMessage(c, callback)
    \/ \E k \in DOMAIN outgoing : RecvAsync(k)
    \/ \E k \in DOMAIN outgoing : IsCancelled(k)
    \/ \E k \in DOMAIN outgoing : SendMessage(k)
    \/ \E k \in DOMAIN outgoing : TryRecv(k)
    \/ \E k \in DOMAIN outgoing : SendPending(k)
    \/ \E k \in DOMAIN outgoing : Flush(k)
    \/ \E k \in DOMAIN outgoing : IncomingEnd(k)
    \/ \E k \in DOMAIN outgoing : DeleteConnection(k)
    \/ \E k \in DOMAIN outgoing : FetchSubConnectionCount(k)
    \/ \E k \in DOMAIN outgoing : HandleConnLost(k)

SendSpec == Init /\ [][SendNext]_vars

(***************************************************************************)
(* get_pool_id on its own: pool_id_counter is a usize that wraps around,   *)
(* so the ids it gives next may be keys of pools that are still in the     *)
(* directory.  The calls are made on counters and directories of that      *)
(* kind: a run of consecutive keys, of a length about IT_LIMIT, with at    *)
(* most one key missing.                                                   *)
(***************************************************************************)
RunLengths == {0} \cup ((IT_LIMIT - 2)..(IT_LIMIT + 1))

Directories ==
    {(first..(first + n - 1)) \ missing :
        first \in 0..MaxPoolIdStart,
        n \in RunLengths,
        missing \in {{}} \cup {{id} : id \in 0..(MaxPoolIdStart + IT_LIMIT)}}

\* get_pool_id runs with pool_id_counter = counter and the keys `pools` in client_pools
GetPoolId(counter, pools) ==
    /\ pool_id_call.result = None
    /\ pool_id_call' = [counter |-> counter, pools |-> pools,
                        result |-> Some(get_pool_id_loop(counter, 0, pools))]
    /\ UNCHANGED <<pool_vars, replica_vars, node_vars, lock_vars, tcp_vars>>

\* the caller has taken the result
GetPoolIdReturn ==
    /\ pool_id_call.result # None
    /\ pool_id_call' = [counter |-> 0, pools |-> {}, result |-> None]
    /\ UNCHANGED <<pool_vars, replica_vars, node_vars, lock_vars, tcp_vars>>

PoolIdNext ==
    \/ \E counter \in 0..MaxPoolIdStart, pools \in Directories : GetPoolId(counter, pools)
    \/ GetPoolIdReturn

PoolIdSpec == Init /\ [][PoolIdNext]_vars

(***************************************************************************)
(* Fairness: every thread that can take a step eventually takes one (the   *)
(* collector thread of each pool, the thread running init_client and the   *)
(* consumer are operating-system threads), and fastrand::usize draws every *)
(* start_point of a pool again and again.                                  *)
(***************************************************************************)
\* collect_requests of pool p starts with `start_point` drawn as sp
StartsAt(p, sp) ==
    WorkerLoop(p) /\ worker'[p].pc = "collect" /\ worker'[p].start_point = sp

\* the steps of Next, with fewer sinks and messages
FairNext ==
    \/ \E peer_id \in ClientIds : Len(peers) < LiveMaxSinks /\ InitClient(peer_id)
    \/ \E s \in 1..MaxSinks : InitClientScan(s)
    \/ \E s \in 1..MaxSinks : InitClientNewPool(s)
    \/ \E s \in 1..MaxSinks : Len(pushed) < LiveMaxMsgs /\ PushRequest(s)
    \/ \E s \in 1..MaxSinks : Disconnect(s)
    \/ \E p \in PoolIds : WorkerLoop(p)
    \/ \E p \in PoolIds : CollectVisit(p)
    \/ \E p \in PoolIds : SendBatch(p)
    \/ ReceiveFromClients

\* a call of the public method shutdown() of a pool, at any moment
Shutdown(p) ==
    /\ p \in DOMAIN pool
    /\ pool' = [pool EXCEPT ![p] = shutdown(pool[p])]
    /\ UNCHANGED <<peers, client_connections_cache, connected_clients, client_pools, worker,
                   pool_id_counter, client_rx, delivered, init_pc, dc_called, pushed>>
    /\ UNCHANGED <<replica_vars, node_vars, call_vars, lock_vars, tcp_vars>>

\* a call of del_pool(pool_id), at any moment and for any id
DelPool(pool_id) ==
    /\ client_pools' = del_pool(pool_id).client_pools
    /\ pool' = del_pool(pool_id).pool
    /\ UNCHANGED <<peers, client_connections_cache, connected_clients, worker,
                   pool_id_counter, client_rx, delivered, init_pc, dc_called, pushed>>
    /\ UNCHANGED <<replica_vars, node_vars, call_vars, lock_vars, tcp_vars>>

\* the steps of FairNext, and shutdown() and del_pool() called on pools
ShutdownNext ==
    \/ FairNext
    \/ \E p \in PoolIds : Shutdown(p)
    \/ \E pool_id \in PoolIds : DelPool(pool_id)

ShutdownSpec == Init /\ [][ShutdownNext]_vars

FairSpec ==
    /\ Init
    /\ [][FairNext]_vars
    /\ \A p \in PoolIds : WF_vars(WorkerStep(p))
    /\ \A p \in PoolIds : \A sp \in 0..(ClientsPerPool - 1) : SF_vars(StartsAt(p, sp))
    /\ \A s \in 1..MaxSinks : WF_vars(InitClientScan(s) \/ InitClientNewPool(s))
    /\ WF_vars(ReceiveFromClients)

(***************************************************************************)
(* A channel with one slot fewer, which the batches of FairNext can fill.  *)
(***************************************************************************)
NarrowChan == MaxChan - 1

NarrowSendBatch(p) == SendBatchBounded(p, NarrowChan)

ChanNext ==
    \/ \E peer_id \in ClientIds : Len(peers) < LiveMaxSinks /\ InitClient(peer_id)
    \/ \E s \in 1..MaxSinks : InitClientScan(s)
    \/ \E s \in 1..MaxSinks : InitClientNewPool(s)
    \/ \E s \in 1..MaxSinks : Len(pushed) < LiveMaxMsgs /\ PushRequest(s)
    \/ \E s \in 1..MaxSinks : Disconnect(s)
    \/ \E p \in PoolIds : WorkerLoop(p)
    \/ \E p \in PoolIds : CollectVisit(p)
    \/ \E p \in PoolIds : NarrowSendBatch(p)
    \/ ReceiveFromClients

\* the threads of the pools and the consumer keep running
ChanFairSpec ==
    /\ Init
    /\ [][ChanNext]_vars
    /\ \A p \in PoolIds : WF_vars(WorkerLoop(p) \/ CollectVisit(p) \/ NarrowSendBatch(p))
    /\ WF_vars(ReceiveFromClients)

(***************************************************************************)
(* The send and the sleep of the thread as two steps, for any configured   *)
(* batch_sleep_micros.  u64 is scaled to 5 bits.                           *)
(***************************************************************************)
U64Modulus == 2 ^ 5

\* let three_quarters_sleep = (self.batch_sleep_micros / 4) * 3
three_quarters_sleep(batch_sleep_micros) == (batch_sleep_micros \div 4) * 3

\* let five_quarters_sleep = (self.batch_sleep_micros / 4) * 5
five_quarters_sleep(batch_sleep_micros) == (batch_sleep_micros \div 4) * 5

\* fastrand::u64(three_quarters_sleep..=five_quarters_sleep): a product beyond u64
\* panics, or wraps around to a value below three_quarters_sleep and leaves fastrand
\* an empty range, on which it panics
sleep_micros(batch_sleep_micros) ==
    IF five_quarters_sleep(batch_sleep_micros) >= U64Modulus
    THEN {}
    ELSE three_quarters_sleep(batch_sleep_micros)..five_quarters_sleep(batch_sleep_micros)

\* the values of batch_sleep_micros the thread runs with: the small ones, and the
\* largest u64
BatchSleeps == (0..MaxBatchSleep) \cup {U64Modulus - 1}

\* line 641: the batch is sent
SendReturn(p) ==
    /\ p \in DOMAIN worker
    /\ worker[p].pc = "send"
    /\ ~send_return(client_rx, MaxChan, worker[p].batch).blocks
    /\ client_rx' = send_return(client_rx, MaxChan, worker[p].batch).channel
    /\ worker' = [worker EXCEPT ![p].batch = <<>>, ![p].pc = "sleep"]
    /\ UNCHANGED <<peers, client_connections_cache, connected_clients, client_pools, pool,
                   pool_id_counter, delivered, init_pc, dc_called, pushed>>
    /\ UNCHANGED <<replica_vars, node_vars, call_vars, lock_vars, tcp_vars>>

\* lines 645-650: the sleep is drawn and slept, with self.batch_sleep_micros any u64
ThreadSleep(p) ==
    /\ p \in DOMAIN worker
    /\ worker[p].pc = "sleep"
    /\ \E batch_sleep_micros \in BatchSleeps :
          IF sleep_micros(batch_sleep_micros) = {}
          THEN worker' = [worker EXCEPT ![p].pc = "panicked"]
          ELSE \E drawn \in sleep_micros(batch_sleep_micros) :
                  worker' = [worker EXCEPT
                      ![p].pc = "loop",
                      ![p].sleep_micros = Some([batch_sleep_micros |-> batch_sleep_micros,
                                                sleep_micros |-> drawn])]
    /\ UNCHANGED <<peers, client_connections_cache, connected_clients, client_pools, pool,
                   pool_id_counter, client_rx, delivered, init_pc, dc_called, pushed>>
    /\ UNCHANGED <<replica_vars, node_vars, call_vars, lock_vars, tcp_vars>>

SleepNext ==
    \/ \E peer_id \in ClientIds : Len(peers) < LiveMaxSinks /\ InitClient(peer_id)
    \/ \E s \in 1..MaxSinks : InitClientScan(s)
    \/ \E s \in 1..MaxSinks : InitClientNewPool(s)
    \/ \E s \in 1..MaxSinks : Len(pushed) < LiveMaxMsgs /\ PushRequest(s)
    \/ \E s \in 1..MaxSinks : Disconnect(s)
    \/ \E p \in PoolIds : WorkerLoop(p)
    \/ \E p \in PoolIds : CollectVisit(p)
    \/ \E p \in PoolIds : SendReturn(p)
    \/ \E p \in PoolIds : ThreadSleep(p)
    \/ ReceiveFromClients

SleepSpec == Init /\ [][SleepNext]_vars

(***************************************************************************)
(* The window between collect_requests returning ClosePool and del_pool:   *)
(* the thread of the pool holds no lock there, so init_client can run in   *)
(* between.  A sink list gets empty through the public attempt_to_remove.  *)
(***************************************************************************)
\* ConnectedPeersPool::attempt_to_remove: the first sink of the list with that id is
\* swap_remove()d; with no such sink the call returns Err(())
AttemptToRemove(p, client_id) ==
    /\ p \in DOMAIN pool
    /\ LET list == pool[p].connected_clients
           found == {i \in DOMAIN list : peers[list[i]].client_id = client_id}
       IN  /\ found # {}
           /\ pool' = [pool EXCEPT ![p].connected_clients = swap_remove(list, Min(found))]
    /\ UNCHANGED <<peers, client_connections_cache, connected_clients, client_pools, worker,
                   pool_id_counter, client_rx, delivered, init_pc, dc_called, pushed>>
    /\ UNCHANGED <<replica_vars, node_vars, call_vars, lock_vars, tcp_vars>>

\* lines 618-623 and 692-700: collect_requests finds the list empty under its lock and
\* returns ClosePool
CollectRequestsEmpty(p) ==
    /\ p \in DOMAIN worker
    /\ worker[p].pc = "loop"
    /\ ~pool[p].finish_execution
    /\ Len(pool[p].connected_clients) = 0
    /\ worker' = [worker EXCEPT ![p].pc = "close_pool"]
    /\ UNCHANGED <<peers, client_connections_cache, connected_clients, client_pools, pool,
                   pool_id_counter, client_rx, delivered, init_pc, dc_called, pushed>>
    /\ UNCHANGED <<replica_vars, node_vars, call_vars, lock_vars, tcp_vars>>

\* lines 626-634: the ClosePool arm runs del_pool, sets the flag and leaves the loop
ThreadClosePool(p) ==
    /\ p \in DOMAIN worker
    /\ worker[p].pc = "close_pool"
    /\ ClosePool(p, client_connections_cache, connected_clients, pool[p].connected_clients)
    /\ UNCHANGED <<peers, pool_id_counter, client_rx, delivered, init_pc, dc_called, pushed>>
    /\ UNCHANGED <<replica_vars, node_vars, call_vars, lock_vars, tcp_vars>>

\* the steps of FairNext with the closing of an empty pool in its two steps, and
\* attempt_to_remove called on pools
CloseRaceNext ==
    \/ \E peer_id \in ClientIds : Len(peers) < LiveMaxSinks /\ InitClient(peer_id)
    \/ \E s \in 1..MaxSinks : InitClientScan(s)
    \/ \E s \in 1..MaxSinks : InitClientNewPool(s)
    \/ \E s \in 1..MaxSinks : Len(pushed) < LiveMaxMsgs /\ PushRequest(s)
    \/ \E s \in 1..MaxSinks : Disconnect(s)
    \/ \E p \in PoolIds :
          /\ p \in DOMAIN pool
          /\ pool[p].finish_execution \/ Len(pool[p].connected_clients) # 0
          /\ WorkerLoop(p)
    \/ \E p \in PoolIds : CollectRequestsEmpty(p)
    \/ \E p \in PoolIds : ThreadClosePool(p)
    \/ \E p \in PoolIds : CollectVisit(p)
    \/ \E p \in PoolIds : SendBatch(p)
    \/ \E p \in PoolIds, client_id \in ClientIds : AttemptToRemove(p, client_id)
    \/ ReceiveFromClients

CloseRaceSpec == Init /\ [][CloseRaceNext]_vars

(***************************************************************************)
(* Registrations made one after another: init_client is called again only  *)
(* after the previous call has returned.                                   *)
(***************************************************************************)
SeqNext ==
    \/ \E peer_id \in ClientIds :
          (\A s \in DOMAIN peers : init_pc[s] = "done") /\ InitClient(peer_id)
    \/ \E s \in 1..MaxSinks : InitClientScan(s)
    \/ \E s \in 1..MaxSinks : InitClientNewPool(s)
    \/ \E s \in 1..MaxSinks : PushRequest(s)
    \/ \E s \in 1..MaxSinks : Disconnect(s)
    \/ \E p \in PoolIds : WorkerLoop(p)
    \/ \E p \in PoolIds : CollectVisit(p)
    \/ \E p \in PoolIds : SendBatch(p)
    \/ ReceiveFromClients

SeqSpec == Init /\ [][SeqNext]_vars

(***************************************************************************)
(* Properties.                                                             *)
(***************************************************************************)
RECURSIVE Flatten(_)
Flatten(batches) ==
    IF batches = <<>> THEN <<>> ELSE Head(batches) \o Flatten(Tail(batches))

Range(seq) == {seq[i] : i \in DOMAIN seq}

\* every message of the batches sent on the output channel so far, in the order the
\* consumer gets them
Emitted == delivered \o Flatten(client_rx)

\* no init_client call is between its cache insert and its return
Quiescent == \A s \in DOMAIN peers : init_pc[s] = "done"

\* the messages of sink s that a collect cycle has taken out of its buffer
Collected(s) ==
    {m \in UNION {Range(worker[p].batch) : p \in DOMAIN worker} \cup Range(Emitted) :
        m.from = s}

\* C1: the consumer gets the messages of one client sink in their push order: when it
\* holds a message of a sink, every message pushed earlier on that sink is at a lower
\* position of what it has received (an earlier batch, or the same batch further ahead).
C1_PushOrderPreserved ==
    \A j \in DOMAIN delivered :
        /\ \A i \in 1..(j - 1) :
               delivered[i].from = delivered[j].from => delivered[i].id < delivered[j].id
        /\ \A k \in 1..(delivered[j].id - 1) :
               pushed[k] = delivered[j].from =>
                   \E i \in 1..(j - 1) : delivered[i] = [from |-> pushed[k], id |-> k]

\* two messages of one sink have reached the consumer
C1_Witness ==
    \E i, j \in DOMAIN delivered : i < j /\ delivered[i].from = delivered[j].from

\* C2: every message of an emitted batch was pushed on the sink it names before it
\* was drained, and no message occurs twice in the emitted batches.
C2_NoFabricationNoDuplication ==
    /\ \A i \in DOMAIN Emitted :
           /\ Emitted[i].id \in DOMAIN pushed
           /\ pushed[Emitted[i].id] = Emitted[i].from
    /\ \A i, j \in DOMAIN Emitted : Emitted[i] = Emitted[j] => i = j

\* two batches were emitted, one of them already received, and a sink was drained twice
C2_Witness ==
    /\ delivered # <<>>
    /\ client_rx # <<>>
    /\ \E i \in DOMAIN delivered : \E m \in Range(Flatten(client_rx)) : m.from = delivered[i].from

\* C3: a message pushed on a client sink that is never disconnected eventually reaches
\* the consumer.
C3_NoLoss ==
    \A k \in 1..LiveMaxMsgs :
        (k \in DOMAIN pushed) ~>
            (k \in DOMAIN pushed /\ (\/ [from |-> pushed[k], id |-> k] \in Range(delivered)
                                     \/ dc_called[pushed[k]]))

\* two messages were pushed on two sinks that were never disconnected, and both were
\* received
C3_Witness ==
    /\ Len(pushed) >= 2
    /\ Len(delivered) = Len(pushed)
    /\ \A k \in DOMAIN pushed : ~dc_called[pushed[k]]
    /\ \E k, l \in DOMAIN pushed : pushed[k] # pushed[l]

\* C4: once disconnect() has returned for a pooled sink, is_dc() is true, a push fails
\* and leaves the buffer as it is, and a drain fails.
C4_DisconnectedSinkRefuses ==
    \A s \in DOMAIN peers :
        dc_called[s] =>
            LET m == [from |-> s, id |-> Len(pushed) + 1]
            IN  /\ is_dc(peers[s])
                /\ ~push_request(peers[s], m).ok
                /\ push_request(peers[s], m).peer = peers[s]
                /\ ~dump_requests(peers[s], <<>>).ok

\* C5: once disconnect() has returned for a client sink, no collect cycle takes a
\* further message of that sink into a batch.
C5_NoMessageAfterDisconnect ==
    [][\A s \in DOMAIN peers : dc_called[s] => Collected(s)' \subseteq Collected(s)]_vars

\* C6: with no init_client call mid-way, every cached client id is cached once, for a
\* sink that carries this id, and that sink is in the sink list of exactly one pool of
\* the directory, once.
C6_CachedSinkInOnePool ==
    Quiescent =>
        \A c \in ClientIds :
            LET s == client_connections_cache[c]
            IN  s # 0 =>
                  /\ peers[s].client_id = c
                  /\ Cardinality({p \in client_pools :
                                     s \in Range(pool[p].connected_clients)}) = 1
                  /\ \A p \in client_pools :
                         Cardinality({i \in DOMAIN pool[p].connected_clients :
                                         pool[p].connected_clients[i] = s}) <= 1

\* two pools exist, an id was registered again, a disconnect was asked for by the
\* transport and a batch was collected and received
C6_Witness ==
    /\ Quiescent
    /\ Cardinality(client_pools) = 2
    /\ \E s \in DOMAIN peers : client_connections_cache[peers[s].client_id] # s
    /\ \E s \in DOMAIN peers : client_connections_cache[peers[s].client_id] = s /\ dc_called[s]
    /\ delivered # <<>>

\* C7: with no init_client call mid-way, connected_clients() is the number of entries
\* of the cache.
C7_CountEqualsCacheSize ==
    Quiescent =>
        connected_clients = Cardinality({c \in ClientIds : client_connections_cache[c] # 0})

\* C8: init_client for an id that is in the cache leaves connected_clients() as it
\* was, installs a fresh sink, and leaves the old sink disconnected.
C8_ReRegisterIdempotent ==
    [][\A c \in ClientIds :
          (/\ Len(peers') = Len(peers) + 1
           /\ peers'[Len(peers')].client_id = c
           /\ client_connections_cache[c] # 0)
          => /\ connected_clients' = connected_clients
             /\ client_connections_cache'[c] = Len(peers')
             /\ client_connections_cache'[c] # client_connections_cache[c]
             /\ is_dc(peers'[client_connections_cache[c]])]_vars

\* C9: ReplicaHandling::init_client raises connected_replicas() by one for a peer that
\* was not registered and leaves it for one that was; resolve_connection then gives
\* the sink just created.
C9_ReplicaRegisterCount ==
    [][\A r \in ReplicaIds :
          (/\ Len(replica_peers') = Len(replica_peers) + 1
           /\ replica_peers'[Len(replica_peers')].client_id = r)
          => /\ connected_client_count' =
                    connected_client_count + (IF resolve_connection(r) = 0 THEN 1 ELSE 0)
             /\ resolve_connection(r)' = Len(replica_peers')]_vars

\* every replica id is registered, and one of them was registered again
C9_Witness ==
    /\ connected_client_count = NumReplicas
    /\ \E s \in DOMAIN replica_peers : resolve_connection(replica_peers[s].client_id) # s
    /\ \A r \in ReplicaIds : resolve_connection(r) # 0

\* C10: a Direct sink that init_client replaced is closed: a push on it fails and puts
\* nothing on the replica queue.
C10_ReplacedDirectSinkClosed ==
    \A s \in DOMAIN replica_peers :
        resolve_connection(replica_peers[s].client_id) # s =>
            LET r == unpooled_push_request(channel_rx_replica, replica_peers[s],
                                           [from |-> s, id |-> replica_msg_count + 1])
            IN  ~r.ok /\ r.channel = channel_rx_replica

\* C11: the sink list of every pool holds at most clients_per_pool sinks, and
\* attempt_to_add on a list that holds clients_per_pool sinks is refused and gives
\* the list back as it was.
C11_PoolHoldsAtMostK ==
    \A p \in DOMAIN pool :
        LET list == pool[p].connected_clients
        IN  /\ Len(list) <= ClientsPerPool
            /\ Len(list) = ClientsPerPool =>
                   \A s \in DOMAIN peers :
                       attempt_to_add(list, s, ClientsPerPool) = [ok |-> FALSE, list |-> list]

\* a pool of the directory is full while its thread is collecting, and init_client
\* was refused by every pool for a further sink
C11_Witness ==
    \E p \in client_pools :
        /\ Len(pool[p].connected_clients) = ClientsPerPool
        /\ worker[p].pc = "collect"
        /\ \E s \in DOMAIN peers : init_pc[s] = "new_pool"

\* the pool of the directory that holds sink s
PoolOf(s) == {p \in client_pools : s \in Range(pool[p].connected_clients)}

\* the thread of pool p was spawned and has not left its loop
Running(p) == p \in DOMAIN worker /\ worker[p].pc \in {"loop", "collect", "send"}

\* C12: with init_client calls made one after another and no removal, a sink is added
\* to the lowest pool of the directory that holds fewer than clients_per_pool sinks,
\* and a pool is created only when every pool holds clients_per_pool sinks; the sinks
\* fill pool 0, then pool 1, ... in creation order, and every pool has a running thread.
C12_LowestPoolWithRoom ==
    /\ [](Quiescent =>
            /\ \A s \in DOMAIN peers :
                   LET p == (s - 1) \div ClientsPerPool
                       i == ((s - 1) % ClientsPerPool) + 1
                   IN  /\ p \in client_pools
                       /\ i \in DOMAIN pool[p].connected_clients
                       /\ pool[p].connected_clients[i] = s
            /\ \A p \in client_pools : Running(p))
    /\ [][\A s \in DOMAIN peers :
            (init_pc[s] # "done" /\ init_pc'[s] = "done") =>
                LET room == {p \in client_pools :
                                Len(pool[p].connected_clients) < ClientsPerPool}
                IN  IF room # {}
                    THEN /\ client_pools' = client_pools
                         /\ PoolOf(s)' = {Min(room)}
                    ELSE /\ \E q \in PoolIds \ client_pools :
                                /\ client_pools' = client_pools \cup {q}
                                /\ pool'[q].connected_clients = <<s>>
                                /\ Running(q)'
                         /\ \A p \in client_pools : pool'[p] = pool[p]]_vars

\* a pool is full, the sink registered after it is alone in the next pool, and the
\* threads of both pools run
C12_Witness ==
    /\ Quiescent
    /\ Len(peers) = ClientsPerPool + 1
    /\ Len(pool[0].connected_clients) = ClientsPerPool
    /\ pool[1].connected_clients = <<ClientsPerPool + 1>>
    /\ Running(0) /\ Running(1)

\* the sinks of the snapshot of pool p that the passes 0..index of the loop have reached
Visited(p, index) ==
    LET w == worker[p]
        n == Len(w.connected_peers)
    IN  {w.connected_peers[((w.start_point + i) % n) + 1] : i \in 0..index}

\* C13: when collect_requests leaves its loop with a batch of at least batch_size
\* messages, every sink of the snapshot that is not disconnected was drained in this
\* cycle, whatever start_point was drawn.
C13_SealedBySizeAfterAllDrained ==
    [][\A p \in DOMAIN worker :
          (/\ worker[p].pc = "collect"
           /\ worker'[p].pc = "send"
           /\ Len(worker'[p].batch) >= BatchTargetSize)
          => \A s \in Range(worker[p].connected_peers) :
                 ~is_dc(peers[s]) => s \in Visited(p, worker[p].index)]_vars

\* C14: collect_requests ends after finitely many passes of its loop once batch_size is
\* reached or the timeout has elapsed: the pass at a revolution boundary that finds
\* either leaves the loop, and no pass runs beyond the boundary at which the timeout
\* has elapsed; this for every snapshot, also when disconnect() has returned for its
\* sinks, the one at start_point included.
C14_CollectReturns ==
    /\ [](\A p \in DOMAIN worker :
             worker[p].pc = "collect" =>
                 worker[p].index <= MaxRevs * Len(worker[p].connected_peers))
    /\ [][\A p \in DOMAIN worker :
             LET w == worker[p]
                 n == Len(w.connected_peers)
             IN  (/\ w.pc = "collect"
                  /\ worker'[p] # w
                  /\ w.index % n = 0
                  /\ \/ w.index \div n >= MaxRevs
                     \/ Len(w.batch) >= BatchTargetSize)
                 => worker'[p].pc # "collect"]_vars

\* disconnect() has returned for every sink of a full snapshot, and the last pass of
\* the cycle, at the sink of start_point, is about to run
C14_Witness ==
    \E p \in DOMAIN worker :
        /\ worker[p].pc = "collect"
        /\ Len(worker[p].connected_peers) = ClientsPerPool
        /\ worker[p].index = MaxRevs * ClientsPerPool
        /\ \A s \in Range(worker[p].connected_peers) : dc_called[s]

\* sink s is in no sink list and its id is not in the cache
Reaped(s) ==
    /\ \A p \in DOMAIN pool : s \notin Range(pool[p].connected_clients)
    /\ client_connections_cache[peers[s].client_id] = 0

\* init_client was called again for the id of sink s
ReRegistered(s) == client_connections_cache[peers[s].client_id] \notin {0, s}

\* C15: a pooled sink for which disconnect() has returned, and whose id is not
\* registered again, is out of the sink list of its pool and its id out of the cache
\* once its pool has run a complete collect cycle (the pool threads run for ever, so
\* the cycle comes).
C15_DisconnectedSinkReaped ==
    \A s \in 1..LiveMaxSinks :
        (s \in DOMAIN peers /\ dc_called[s]) ~>
            (s \in DOMAIN peers /\ (Reaped(s) \/ ReRegistered(s)))

\* C16: with one registered client disconnected and nothing else registered or
\* disconnected meanwhile, connected_clients() ends up one lower than it was once the
\* pool has run a complete collect cycle.
C16_CountLoweredByOne ==
    \A s \in 1..LiveMaxSinks : \A n \in 1..LiveMaxSinks : \A k \in 1..LiveMaxSinks :
        LET Alone == /\ Len(peers) = k
                     /\ s \in DOMAIN peers
                     /\ \A t \in DOMAIN peers : dc_called[t] <=> t = s
        IN  (Alone /\ Quiescent /\ connected_clients = n
                   /\ client_connections_cache[peers[s].client_id] = s)
                ~> (~Alone \/ connected_clients = n - 1)

C18_TimeoutGivesEmptyList ==
    (node_type = "Replica" /\ client_rx = <<>>) =>
        LET r == receive_from_clients(self_client_rx, Some("timeout"))
        IN  /\ r.returns
            /\ r.ok
            /\ r.value = <<>>
            /\ r.rx = self_client_rx

\* the output channel of a replica node is empty after a batch was received, while a
\* sink holds a message that no cycle has collected yet
C18_Witness ==
    /\ node_type = "Replica"
    /\ client_rx = <<>>
    /\ delivered # <<>>
    /\ \E s \in DOMAIN peers : peers[s].queue # None /\ peers[s].queue[1] # <<>>

\* C19: on a node constructed as a client, receive_from_clients and
\* try_receive_from_clients return Err(NoClientsConnected) and client_count() returns
\* None, in every state of the node.
C19_ClientNodeHasNoIntake ==
    node_type = "Client" =>
        /\ \A timeout \in {None, Some("timeout")} :
               LET r == receive_from_clients(self_client_rx, timeout)
               IN  r.returns /\ ~r.ok /\ r.err = "NoClientsConnected"
        /\ LET r == try_receive_from_clients(self_client_rx)
           IN  r.returns /\ ~r.ok /\ r.err = "NoClientsConnected"
        /\ client_count(self_client_handling) = None

\* a client node with every replica registered, that has received replica messages
C19_Witness ==
    /\ node_type = "Client"
    /\ connected_client_count = NumReplicas
    /\ replica_delivered # <<>>

\* C20: try_receive_from_clients returns in every state; on a replica node it gives
\* None exactly when the output channel holds no batch, and otherwise gives the oldest
\* batch of the channel and takes it, and only it, out of the channel.
C20_TryReceiveOldestOrNone ==
    LET r == try_receive_from_clients(self_client_rx)
    IN  /\ r.returns
        /\ node_type = "Replica" =>
              /\ r.ok
              /\ r.value = None <=> client_rx = <<>>
              /\ IF client_rx = <<>>
                 THEN r.rx = Some(client_rx)
                 ELSE r.value = Some(Head(client_rx)) /\ r.rx = Some(Tail(client_rx))

\* two different batches are pending on the output channel of a replica node
C20_Witness ==
    /\ node_type = "Replica"
    /\ Len(client_rx) = 2
    /\ client_rx[1] # client_rx[2]

\* the messages pushed on unpooled sinks so far, in the order the consumer gets them
ReplicaEmitted == replica_delivered \o channel_rx_replica

\* C21: resolve_peer_conn(own_id, _) gives the loopback sink that new() registered,
\* whatever was registered since, and every message pushed on the loopback sink is
\* returned by receive_from_replicas.
C21_LoopbackResolvedAndDelivered ==
    /\ [](\A role \in NodeTypes :
             /\ resolve_peer_conn(own_id, role) =
                    Some([arm |-> "UnpooledConnection", sink |-> peer_loopback])
             /\ replica_peers[peer_loopback] = NewUnpooledConnection(own_id))
    /\ \A k \in 1..MaxReplicaMsgs :
           ([from |-> peer_loopback, id |-> k] \in Range(channel_rx_replica))
               ~> ([from |-> peer_loopback, id |-> k] \in Range(replica_delivered))

\* own_id was registered again after construction, and a message pushed on the
\* loopback sink after that was received
C21_Witness ==
    /\ resolve_connection(own_id) # peer_loopback
    /\ \E i \in DOMAIN replica_delivered : replica_delivered[i].from = peer_loopback

\* C22: every message pushed on an unpooled sink is returned once by
\* receive_from_replicas, never twice, and the messages of one sink are returned in
\* their push order.
C22_ReplicaExactlyOnceInOrder ==
    /\ [](/\ \A k \in 1..replica_msg_count :
                Cardinality({i \in DOMAIN ReplicaEmitted : ReplicaEmitted[i].id = k}) = 1
          /\ \A i, j \in DOMAIN ReplicaEmitted :
                (i < j /\ ReplicaEmitted[i].from = ReplicaEmitted[j].from)
                    => ReplicaEmitted[i].id < ReplicaEmitted[j].id)
    /\ \A k \in 1..MaxReplicaMsgs :
           (replica_msg_count >= k)
               ~> (\E i \in DOMAIN replica_delivered : replica_delivered[i].id = k)

\* two messages pushed on one sink and one pushed on another were all received
C22_Witness ==
    /\ channel_rx_replica = <<>>
    /\ \E i, j \in DOMAIN replica_delivered :
           i < j /\ replica_delivered[i].from = replica_delivered[j].from
    /\ \E i, j \in DOMAIN replica_delivered :
           replica_delivered[i].from # replica_delivered[j].from

\* the mutexes thread t holds
Held(t) == {m \in Mutexes : mutex[m] = Some(t)}

\* thread t is inside lock() on a mutex that another thread (or itself) holds
WaitsFor(t) ==
    IF lock_todo[t] # <<>> /\ Head(lock_todo[t]).op = "lock"
                           /\ mutex[Head(lock_todo[t]).m] # None
    THEN {mutex[Head(lock_todo[t]).m][1]}
    ELSE {}

\* following who waits for whom from thread t leads to thread `to` within n steps
RECURSIVE InRing(_, _, _)
InRing(t, to, n) ==
    /\ n > 0
    /\ \E u \in WaitsFor(t) : u = to \/ InRing(u, to, n - 1)

\* position of a mutex in the order client_pools, connected_clients, queue
LockRank(m) ==
    IF m[1] = "client_pools" THEN 1 ELSE IF m[1] = "connected_clients" THEN 2 ELSE 3

\* C23: no thread waits, directly or through other waiting threads, for itself; a thread that takes
\* a mutex holds only mutexes that come earlier in the order client_pools,
\* connected_clients, queue; and the thread of a pool holds nothing when it locks the
\* queue of a sink.
C23_NoMutexDeadlock ==
    /\ [](\A t \in LockThreads : ~InRing(t, t, Cardinality(LockThreads)))
    /\ [][\A t \in LockThreads : \A m \in Mutexes :
             (mutex[m] # Some(t) /\ mutex'[m] = Some(t)) =>
                 /\ \A h \in Held(t) : LockRank(h) < LockRank(m)
                 /\ (t[1] = "collector" /\ m[1] = "queue") => Held(t) = {}]_vars

\* a caller of init_client holds client_pools and the sink list of a pool, while the
\* thread of that pool waits for the list and another thread waits for client_pools
C23_Witness ==
    \E t \in LockThreads : \E p \in LockPools :
        /\ t[1] = "init_client"
        /\ Held(t) = {client_pools_mutex, connected_clients_mutex(p)}
        /\ WaitsFor(<<"collector", p>>) = {t}
        /\ \E u \in LockThreads \ {t, <<"collector", p>>} : WaitsFor(u) = {t}

\* C24: finish_execution of a pool, once true, stays true; the thread of the pool that
\* reads it as true at the head of its loop ends, and a thread that has ended starts no
\* collect cycle and sends no batch.
C24_TerminationOneWay ==
    [][\A p \in DOMAIN pool :
          /\ pool[p].finish_execution => pool'[p].finish_execution
          /\ (worker[p].pc = "loop" /\ pool[p].finish_execution /\ worker'[p] # worker[p])
                 => worker'[p].pc = "done"
          /\ worker[p].pc = "done" => worker'[p] = worker[p]]_vars

\* the thread of a pool has ended on the flag while a sink of the pool holds a message
C24_Witness ==
    \E p \in DOMAIN pool :
        /\ pool[p].finish_execution
        /\ worker[p].pc = "done"
        /\ \E s \in Range(pool[p].connected_clients) : peers[s].queue[1] # <<>>

\* C25: del_pool takes a pool that is in the directory out of it and sets its flag,
\* leaving every other pool as it is; for an id that is not in the directory it changes
\* nothing; it does not touch the output channel, whose batches the consumer still gets.
C25_DelPoolFrame ==
    /\ [](\A pool_id \in PoolIds :
            LET r == del_pool(pool_id)
            IN  /\ pool_id \in client_pools =>
                      /\ r.removed
                      /\ r.client_pools = client_pools \ {pool_id}
                      /\ r.pool[pool_id].finish_execution
                      /\ r.pool[pool_id].connected_clients = pool[pool_id].connected_clients
                      /\ \A q \in DOMAIN pool \ {pool_id} : r.pool[q] = pool[q]
                /\ pool_id \notin client_pools =>
                      /\ ~r.removed
                      /\ r.client_pools = client_pools
                      /\ r.pool = pool
                /\ DOMAIN r.pool = DOMAIN pool
                /\ client_rx # <<>> =>
                      LET got == try_receive_from_clients(Some(client_rx))
                      IN  got.ok /\ got.value = Some(Head(client_rx)))
    /\ [][\A pool_id \in client_pools \ client_pools' :
              /\ client_pools' = client_pools \ {pool_id}
              /\ pool'[pool_id].finish_execution
              /\ \A q \in DOMAIN pool \ {pool_id} : pool'[q] = pool[q]
              /\ client_rx' = client_rx
              /\ delivered' = delivered
              /\ peers' = peers]_vars

\* a pool has been taken out of the directory with its flag set, another pool is still
\* in the directory, and a batch is pending in the channel
C25_Witness ==
    /\ \E pool_id \in DOMAIN pool \ client_pools : pool[pool_id].finish_execution
    /\ client_pools # {}
    /\ client_rx # <<>>

\* the PeerConnection objects that new_peer built for a peer
PeerConnectionsOf(node) ==
    {c \in DOMAIN peer_connection : peer_connection[c].peer_node_id = node}

\* C26: however many streams are handed over for a peer, and by however many threads
\* at once, new_peer builds one PeerConnection for the peer, the map holds that one as
\* the peer's only entry, every stream gets its handle from it, and
\* connected_nodes_count is the number of peers that have a PeerConnection.
C26_OnePeerConnectionPerPeer ==
    /\ \A node \in TcpPeers :
          /\ Cardinality(PeerConnectionsOf(node)) <= 1
          /\ is_connected_to_node(node) <=> PeerConnectionsOf(node) # {}
          /\ \A c \in PeerConnectionsOf(node) :
                /\ connection_map[node] = Some(c)
                /\ peer_connection[c].conn_id_generator
                       + Cardinality({t \in Acceptors :
                              /\ acceptor[t].node = node
                              /\ acceptor[t].pc \in {"or_insert_with", "init_conn_handle"}})
                   = established[node]
          /\ \A t \in Acceptors :
                (acceptor[t].node = node /\ acceptor[t].pc \notin {"idle", "or_insert_with"})
                    => acceptor[t].peer_conn \in PeerConnectionsOf(node)
    /\ connected_nodes_count = Cardinality({node \in TcpPeers : PeerConnectionsOf(node) # {}})
    /\ connected_nodes_count <= NumTcpPeers

\* every peer has had all its streams attached, and the map counts the peers
C26_Witness ==
    /\ connected_nodes_count = NumTcpPeers
    /\ \A node \in TcpPeers :
          \E c \in PeerConnectionsOf(node) :
              /\ peer_connection[c].conn_id_generator = MaxStreams
              /\ Cardinality(peer_connection[c].active_connections) >= 2

\* C27: a batch reaches the output channel only as the one send of the thread that
\* collected it, the thread then being back at the head of its loop; a collect that
\* returned a non-empty batch is followed by that send and by nothing else, a collect
\* that returned an empty one by no send; the channel never holds an empty batch.
C27_OneNonEmptyBatchPerIteration ==
    /\ [](\A i \in DOMAIN client_rx : client_rx[i] # <<>>)
    /\ [][/\ \A p \in DOMAIN worker :
                /\ (worker[p].pc = "collect" /\ worker'[p].pc = "send")
                       => worker'[p].batch # <<>> /\ client_rx' = client_rx
                /\ (worker[p].pc = "collect" /\ worker'[p].pc = "loop")
                       => worker'[p].batch = <<>> /\ client_rx' = client_rx
                /\ (worker[p].pc = "send" /\ worker'[p] # worker[p])
                       => /\ client_rx' = Append(client_rx, worker[p].batch)
                          /\ worker'[p].pc = "loop"
          /\ Len(client_rx') > Len(client_rx)
                => \E p \in DOMAIN worker :
                      /\ worker[p].pc = "send"
                      /\ client_rx' = Append(client_rx, worker[p].batch)]_vars

\* one thread has sent its batch and another has collected one and is about to send it
C27_Witness ==
    /\ client_rx # <<>>
    /\ \E p \in DOMAIN worker : worker[p].pc = "send" /\ worker[p].batch # <<>>

\* C28: the output channel never holds more batches than its capacity; a thread whose
\* send finds the channel full keeps its batch and does nothing else, whatever the
\* other pools do; when it leaves the send its batch is the last of the channel; and
\* every message of a batch a thread is sending reaches the consumer.
C28_BoundedBlockingSend ==
    /\ [](Len(client_rx) <= NarrowChan)
    /\ [][\A p \in DOMAIN worker :
              /\ (worker[p].pc = "send" /\ Len(client_rx) >= NarrowChan)
                     => worker'[p] = worker[p]
              /\ (worker[p].pc = "send" /\ worker'[p] # worker[p])
                     => /\ Len(client_rx) < NarrowChan
                        /\ client_rx' = Append(client_rx, worker[p].batch)]_vars
    /\ \A s \in 1..MaxSinks : \A id \in 1..MaxMsgs :
          (\E p \in DOMAIN worker :
               /\ worker[p].pc = "send"
               /\ [from |-> s, id |-> id] \in Range(worker[p].batch))
          ~> ([from |-> s, id |-> id] \in Range(delivered))

\* the channel is full of the batch of one pool while the thread of another pool is
\* in its send
C28_Witness ==
    /\ Len(client_rx) = NarrowChan
    /\ \E p \in DOMAIN worker :
          /\ worker[p].pc = "send"
          /\ \A m \in Range(Flatten(client_rx)) :
                 m.from \notin Range(pool[p].connected_clients)

\* the ids for which a call of get_pool_id that drew the ids first..(next - 1) asked
\* contains_key: all of them when it returned Ok, all but the last when it returned Err
Examined(first, result) ==
    IF result.ok THEN first..(result.counter - 1) ELSE first..(result.counter - 2)

\* C29: an id that get_pool_id returns was not a key of the directory when it was
\* looked up, and every id drawn before it was; a call that fails has looked up at
\* most IT_LIMIT ids and found every one of them in the directory.
C29_PoolIdFreeOrAllTaken ==
    pool_id_call.result # None =>
        LET r == pool_id_call.result[1]
            looked_up == Examined(pool_id_call.counter, r)
        IN  /\ Cardinality(looked_up) <= IT_LIMIT
            /\ r.ok => /\ r.pool_id \notin pool_id_call.pools
                       /\ r.pool_id \in looked_up
                       /\ looked_up \ {r.pool_id} \subseteq pool_id_call.pools
            /\ ~r.ok => looked_up \subseteq pool_id_call.pools

\* a call has failed on a directory that holds every id it looked up
C29_Witness ==
    /\ pool_id_call.result # None
    /\ ~pool_id_call.result[1].ok
    /\ Examined(pool_id_call.counter, pool_id_call.result[1]) # {}

\* C30: a collect cycle returns a batch of some but fewer than batch_target_size
\* messages only from a timeout check made when a revolution is complete, every sink of its snapshot
\* having been visited in the cycle (two clients holding messages, the target out of
\* reach: the batch sealed by the timeout holds the messages of both).
C30_ShortBatchAfterFullRevolution ==
    [][\A p \in DOMAIN worker :
          (/\ worker[p].pc = "collect"
           /\ worker'[p].pc = "send"
           /\ Len(worker'[p].batch) < BatchTargetSize)
              => worker[p].index + 1 >= Len(worker[p].connected_peers)]_vars

\* C31: a thread comes back to the head of its loop only out of its sleep, with or
\* without a batch sent in the iteration.
C31_SleepEveryIteration ==
    [][\A p \in DOMAIN worker :
          (worker[p].pc \in {"collect", "send", "sleep"} /\ worker'[p].pc = "loop")
              => worker[p].pc = "sleep"]_vars

\* C32: a sleep drawn under batch_sleep_micros = S lies between 0.75 S and 1.25 S.
C32_SleepWithinQuarterOfConfigured ==
    \A p \in DOMAIN worker :
        worker[p].sleep_micros # None =>
            LET S == worker[p].sleep_micros[1].batch_sleep_micros
                d == worker[p].sleep_micros[1].sleep_micros
            IN  3 * S <= 4 * d /\ 4 * d <= 5 * S

\* C33: ReplicaHandling keeps its own sender of the channel, so the channel is never
\* seen disconnected by receive_from_replicas, whatever sinks were registered,
\* registered again and dropped.
C33_ReplicaChannelNeverDisconnected ==
    /\ 0 \in channel_tx_replica
    /\ ~ChannelDc

\* a sink that a second registration of its replica replaced has been dropped, the
\* channel is empty, and the consumer has received a message
C33_Witness ==
    /\ \E s \in DOMAIN replica_peers : s \notin channel_tx_replica
    /\ channel_rx_replica = <<>>
    /\ replica_delivered # <<>>

\* the tasks spawned for streams of PeerConnection c
TasksOf(c) == {k \in DOMAIN outgoing : k[1] = c}

\* the streams of c whose tasks were spawned and whose handle was not deleted yet
SpawnedStreams(c) ==
    {k \in TasksOf(c) : k[2] \in peer_connection[c].active_connections}

\* a thread is inside insert_new_connection of c
InsertMidWay(c) ==
    \E t \in Acceptors :
        acceptor[t].peer_conn = c /\ acceptor[t].pc \in {"insert", "fetch_add", "conn_limit"}

\* a task is inside delete_connection of c
DeleteMidWay(c) == \E k \in TasksOf(c) : outgoing[k].pc = "fetch_sub"

\* C34: once the last stream of a peer is closed (every task spawned for the peer has
\* deleted its stream and gone through handle_conn_lost, and no stream is being
\* inserted), disconnect() has been called on the sink of the peer.
C34_DisconnectOnLastStreamClosed ==
    \A c \in DOMAIN peer_connection :
        ( /\ TasksOf(c) # {}
          /\ \A k \in TasksOf(c) : outgoing[k].pc = "end"
          /\ ~InsertMidWay(c) )
        => peer_connection[c].client_disconnects > 0

\* C35: a handle_conn_lost that follows the removal of the last stream of a peer (no
\* handle is left in active_connections) leaves the peer out of the connection map.
C35_PeerRemovedWithLastStream ==
    [][\A k \in DOMAIN outgoing :
          ( /\ outgoing[k].pc = "handle_conn_lost"
            /\ outgoing'[k].pc = "end"
            /\ outgoing[k].found
            /\ peer_connection[k[1]].active_connections = {} )
          => ~is_connected_to_node(peer_connection[k[1]].peer_node_id)']_vars

\* C36: the streams of a PeerConnection whose tasks were spawned and that were not
\* deleted yet are never more than 2 * conn_limit, and a stream that found the count
\* at the limit gets no task.
C36_SpawnedStreamsWithinLimit ==
    /\ \A c \in DOMAIN peer_connection :
           Cardinality(SpawnedStreams(c)) <= 2 * replica_concurrent_connections
    /\ \A t \in Acceptors :
           acceptor[t].pc = "insert" =>
               <<acceptor[t].peer_conn, acceptor[t].conn_handle>> \notin DOMAIN outgoing

\* a PeerConnection holds 2 * conn_limit spawned streams and a further stream of it
\* was disposed of: its handle has neither a task nor a thread inserting it
C36_Witness ==
    \E c \in DOMAIN peer_connection :
        /\ Cardinality(SpawnedStreams(c)) = 2 * replica_concurrent_connections
        /\ ~InsertMidWay(c)
        /\ \E id \in peer_connection[c].active_connections : <<c, id>> \notin DOMAIN outgoing

\* C40: with no insert_new_connection and no delete_connection mid-way,
\* active_connection_count is the number of handles in active_connections.
C40_CountIsNumberOfHandles ==
    \A c \in DOMAIN peer_connection :
        (~InsertMidWay(c) /\ ~DeleteMidWay(c))
        => peer_connection[c].active_connection_count
               = Cardinality(peer_connection[c].active_connections)

\* the places message m of PeerConnection c is at: slots of the queue, tasks that
\* hold it, and writes of it to a socket
Places(c, m) ==
    Cardinality({i \in DOMAIN peer_connection[c].tx : peer_connection[c].tx[i].msg = m})
    + Cardinality({k \in TasksOf(c) :
                      outgoing[k].to_send # None /\ outgoing[k].to_send[1].msg = m})
    + Cardinality({i \in DOMAIN peer_connection[c].written :
                      peer_connection[c].written[i] = m})

\* C37: a message given to peer_message is at one place at any time, on the queue, in
\* the hands of an outgoing task or written to a socket; a task that has left its loop
\* (stream cancelled, write or flush failed) holds no message; and a callback is
\* called with true only, for a message that was written.
C37_TakenMessageNeverLost ==
    \A c \in DOMAIN peer_connection :
        /\ \A m \in 1..peer_connection[c].peer_messages : Places(c, m) = 1
        /\ \A k \in TasksOf(c) :
               outgoing[k].pc \in {"return", "delete_connection", "fetch_sub",
                                   "handle_conn_lost", "end"}
               => outgoing[k].to_send = None
        /\ \A i \in DOMAIN peer_connection[c].callback_calls :
               /\ peer_connection[c].callback_calls[i][2] = TRUE
               /\ \E j \in DOMAIN peer_connection[c].written :
                      peer_connection[c].written[j] = peer_connection[c].callback_calls[i][1]

\* a task that found its stream cancelled has returned and a task whose write failed
\* has left its loop, with the messages they had taken back on the queue or written by
\* another task since, one of them with its callback called
C37_Witness ==
    \E c \in DOMAIN peer_connection :
        /\ \E k \in TasksOf(c) : outgoing[k].pc = "return"
        /\ \E k \in TasksOf(c) : outgoing[k].pc = "delete_connection"
        /\ peer_connection[c].peer_messages = MaxSendMsgs
        /\ peer_connection[c].tx # <<>>
        /\ peer_connection[c].callback_calls # <<>>

=============================================================================
